---- MODULE Spec2Model ----
(***************************************************************************)
(* Secure record store of the Wax Encounters site: SecureStorageManager    *)
(* (secure-storage) over WaxEncountersSecurity (server-validation.js), and *)
(* the form validation and rate limiter of ServerValidation, and the       *)
(* stock keeping of PurchaseTracker.                                       *)
(*                                                                         *)
(* JavaScript values are tagged records, so that typeof and truthiness can *)
(* be decided: strings carry their characters as a tuple of one-character  *)
(* strings, objects are functions from property names to values, and a     *)
(* property that is not in the domain reads as undefined.                  *)
(* Time is counted in hours (Date.now() in the source is in milliseconds); *)
(* for the rate limiter one unit of the clock is a fraction of a window.   *)
(***************************************************************************)
EXTENDS Integers, Sequences, FiniteSets, TLC

VARIABLES
    localStorage,   \* the browser's key-value store: key -> stored text or null
    now,            \* Date.now(), in hours
    pc,             \* per handler: where its async call is suspended
    args,           \* per handler: the operation called and its arguments
    local,          \* per handler: the local variables of the call in flight
    ret,            \* per handler: the value the finished call returned
    written,        \* history: which call wrote the persisted envelope
    storageFull,    \* localStorage.setItem throws (quota exceeded, storage disabled)
    rateLimitStore, \* the localStorage entries under the rate_limit_ keys
    allowed,        \* history: per rate-limit key, the times of the allowed calls
    allowedOf,      \* history: per (action, identifier) pair, the times of its allowed calls
    records,        \* PurchaseTracker: this.records, the uploaded records in memory
    uploadedRecords,\* PurchaseTracker: the records saved under the key uploadedRecords
    overtaken       \* history: the handlers whose store or update in flight a deleteUserData ran during

\* The state that belongs to ServerValidation; the storage manager leaves it alone.
serverVars == <<rateLimitStore, allowed, allowedOf>>

\* The state that belongs to PurchaseTracker.
trackerVars == <<records, uploadedRecords>>

vars == <<localStorage, now, pc, args, local, ret, written, storageFull, serverVars, trackerVars,
          overtaken>>

(***************************************************************************)
(* Bounds of the model.                                                    *)
(***************************************************************************)
MaxTime == 2

\* The hour up to which the clock runs where the age of stored items matters
\* (31 days after the page was loaded).
MaxAgeClock == 745

\* The hour up to which the clock runs where the idle time of the session matters.
MaxIdleClock == 26

\* The time up to which the clock runs where calls are rate limited; a rate
\* limit window is a few units of this clock long.
MaxRateClock == 6

\* The event handlers that may have a call in flight at the same time.
Procs == {"h1", "h2"}

(***************************************************************************)
(* JavaScript values.                                                      *)
(***************************************************************************)
Str(s) == [t |-> "string", v |-> s]
Num(n) == [t |-> "number", n |-> n]
Bool(b) == [t |-> "boolean", b |-> b]
undefined == [t |-> "undefined"]
Obj == [t |-> "object"]
ISOString(time) == [t |-> "string", iso |-> time]

typeof(x) == x.t

\* !x is false for x: the empty string, undefined, false and 0 are falsy.
Truthy(x) ==
    CASE x.t = "string" -> ("iso" \in DOMAIN x) \/ x.v # <<>>
      [] x.t = "number" -> x.n # 0
      [] x.t = "boolean" -> x.b
      [] x.t = "object" -> TRUE
      [] OTHER -> FALSE

\* obj[k]: a property that is absent reads as undefined.
Get(obj, k) == IF k \in DOMAIN obj THEN obj[k] ELSE undefined

\* {...a, ...b}
Spread(a, b) ==
    [k \in (DOMAIN a) \cup (DOMAIN b) |-> IF k \in DOMAIN b THEN b[k] ELSE a[k]]

\* JSON.stringify leaves out the properties whose value is undefined.
Defined(obj) == [k \in {j \in DOMAIN obj : obj[j].t # "undefined"} |-> obj[k]]

\* JSON.stringify of a flat object of values; the text is kept as its parse tree.
JSONstringify(obj) == [json |-> Defined(obj)]

\* Text that JSON.parse accepts.
IsJSON(text) == "json" \in DOMAIN text

JSONparse(text) == text.json

null == [null |-> TRUE]

\* A stored value that is not JSON.
Garbage == [garbage |-> TRUE]

(***************************************************************************)
(* Character classes and the format checks of WaxEncountersSecurity.       *)
(***************************************************************************)
UpperAZ == {"A","B","C","D","E","F","G","H","I","J","K","L","M",
            "N","O","P","Q","R","S","T","U","V","W","X","Y","Z"}
LowerAZ == {"a","b","c","d","e","f","g","h","i","j","k","l","m",
            "n","o","p","q","r","s","t","u","v","w","x","y","z"}
Digit09 == {"0","1","2","3","4","5","6","7","8","9"}
Whitespace == {" "}

AllIn(s, from, to, class) == \A i \in from..to : s[i] \in class

\* s.replace(/\s/g, '')
StripWhitespace(s) == SelectSeq(s, LAMBDA ch : ch \notin Whitespace)

\* /^[a-zA-Z0-9._%+-]+@[a-zA-Z0-9.-]+\.[a-zA-Z]{2,}$/
validateEmail(email) ==
    \E at \in 2..Len(email), dot \in 4..Len(email) :
        /\ email[at] = "@"
        /\ email[dot] = "."
        /\ at + 1 < dot
        /\ dot + 2 <= Len(email)
        /\ AllIn(email, 1, at - 1, UpperAZ \cup LowerAZ \cup Digit09 \cup {".","_","%","+","-"})
        /\ AllIn(email, at + 1, dot - 1, UpperAZ \cup LowerAZ \cup Digit09 \cup {".","-"})
        /\ AllIn(email, dot + 1, Len(email), UpperAZ \cup LowerAZ)

\* /^[A-Z]{2}[0-9]{2}[A-Z0-9]{4}[0-9]{7}([A-Z0-9]?){0,16}$/ on the IBAN without whitespace
validateIBAN(iban) ==
    LET s == StripWhitespace(iban) IN
        /\ Len(s) >= 15
        /\ Len(s) <= 31
        /\ AllIn(s, 1, 2, UpperAZ)
        /\ AllIn(s, 3, 4, Digit09)
        /\ AllIn(s, 5, 8, UpperAZ \cup Digit09)
        /\ AllIn(s, 9, 15, Digit09)
        /\ AllIn(s, 16, Len(s), UpperAZ \cup Digit09)

\* /^[A-Z]{6}[A-Z0-9]{2}([A-Z0-9]{3})?$/
validateBIC(bic) ==
    /\ Len(bic) \in {8, 11}
    /\ AllIn(bic, 1, 6, UpperAZ)
    /\ AllIn(bic, 7, Len(bic), UpperAZ \cup Digit09)

(***************************************************************************)
(* Crypto primitives of WaxEncountersSecurity.  Keys, ciphertexts and      *)
(* digests are symbolic terms: a PBKDF2 key is determined by (password,    *)
(* salt), an AES-GCM ciphertext opens only under the key and IV that made  *)
(* it and only while no byte of it was changed, and SHA-256 is injective.  *)
(***************************************************************************)
algorithm == "AES-GCM"
ivLength == 12
tagLength == 128
iterations == 100000
saltLength == 32

\* The values window.crypto.getRandomValues may return.
Salts == {"salt1"}
IVs == {"iv1"}
SessionTokens == {"token1"}

deriveKeyFromPassword_saltOnly(password, salt) == [kdf |-> "PBKDF2", password |-> Str(<<>>), salt |-> salt]

deriveKeyFromPassword(password, salt) == [kdf |-> "PBKDF2", password |-> password, salt |-> salt]

\* crypto.subtle.encrypt: ciphertext with its authentication tag.
subtleEncrypt(key, iv, plaintext) == [key |-> key, iv |-> iv, plaintext |-> plaintext, intact |-> TRUE]

\* crypto.subtle.decrypt resolves only if the tag verifies.
subtleDecryptOk(key, iv, encrypted) ==
    /\ encrypted.intact
    /\ encrypted.key = key
    /\ encrypted.iv = iv

\* btoa(String.fromCharCode(...combined)) of salt || iv || ciphertext
btoa(salt, iv, encrypted) == [base64 |-> [salt |-> salt, iv |-> iv, encrypted |-> encrypted]]

\* atob throws on text that is not base64.
IsBase64(text) == "base64" \in DOMAIN text

atob(text) == text.base64

encryptUserData(data, password, salt, iv) ==
    btoa(salt, iv, subtleEncrypt(deriveKeyFromPassword(password, salt), iv, JSONstringify(data)))

\* What an async call settles to: a value, or a thrown Error with its message.
Resolved(value) == [ok |-> TRUE, value |-> value]
Thrown(message) == [ok |-> FALSE, message |-> message]

decryptUserData_leaky(encryptedData, password) ==
    IF ~IsBase64(encryptedData)
    THEN Thrown("InvalidCharacterError")
    ELSE LET combined == atob(encryptedData)
             key == deriveKeyFromPassword(password, combined.salt)
         IN IF subtleDecryptOk(key, combined.iv, combined.encrypted)
            THEN Resolved(JSONparse(combined.encrypted.plaintext))
            ELSE Thrown("Failed to decrypt user data")

\* Every failure inside the try block is caught and rethrown as one Error.
decryptUserData(encryptedData, password) ==
    IF ~IsBase64(encryptedData)
    THEN Thrown("Failed to decrypt user data")
    ELSE LET combined == atob(encryptedData)
             key == deriveKeyFromPassword(password, combined.salt)
         IN IF subtleDecryptOk(key, combined.iv, combined.encrypted)
            THEN Resolved(JSONparse(combined.encrypted.plaintext))
            ELSE Thrown("Failed to decrypt user data")

\* SHA-256 as hex
sha256(text) == [sha256 |-> text]

hashPassword(password) == sha256(password)

\* JSON.stringify of an envelope: nested nonSensitiveData loses its undefined properties.
stringifyEnvelope(obj) ==
    [json |-> [k \in DOMAIN obj |->
        IF k = "nonSensitiveData" THEN Defined(obj[k]) ELSE obj[k]]]

generateDataHash_blobOnly(data) == sha256([json |-> [k \in {"encryptedData"} |-> data[k]]])

generateDataHash(data) == sha256(stringifyEnvelope(data))

verifyDataIntegrity_skip(data, expectedHash) == TRUE

verifyDataIntegrity(data, expectedHash) == generateDataHash(data) = expectedHash

(***************************************************************************)
(* ServerValidation: text helpers, sanitizeInput and the field checks.     *)
(***************************************************************************)
UpperSeq == <<"A","B","C","D","E","F","G","H","I","J","K","L","M",
              "N","O","P","Q","R","S","T","U","V","W","X","Y","Z">>
LowerSeq == <<"a","b","c","d","e","f","g","h","i","j","k","l","m",
              "n","o","p","q","r","s","t","u","v","w","x","y","z">>
DigitSeq == <<"0","1","2","3","4","5","6","7","8","9">>

\* Letters of the range À-ÿ that the inputs use.
Latin1 == {"é", "ü"}

IndexOf(ch, seq) == CHOOSE i \in 1..Len(seq) : seq[i] = ch

toLowerCase(s) == [i \in 1..Len(s) |-> IF s[i] \in UpperAZ THEN LowerSeq[IndexOf(s[i], UpperSeq)] ELSE s[i]]
toUpperCase(s) == [i \in 1..Len(s) |-> IF s[i] \in LowerAZ THEN UpperSeq[IndexOf(s[i], LowerSeq)] ELSE s[i]]

RECURSIVE TrimStart(_)
TrimStart(s) == IF s # <<>> /\ s[1] \in Whitespace THEN TrimStart(Tail(s)) ELSE s

RECURSIVE TrimEnd(_)
TrimEnd(s) == IF s # <<>> /\ s[Len(s)] \in Whitespace THEN TrimEnd(SubSeq(s, 1, Len(s) - 1)) ELSE s

\* s.trim()
trim(s) == TrimEnd(TrimStart(s))

\* s.replace(/[...]/g, '')
RemoveChars(s, chars) == SelectSeq(s, LAMBDA ch : ch \notin chars)

\* s.replace(/word/gi, ''): one pass from the left; the text that results is
\* not searched again.
RECURSIVE RemoveWord(_, _)
RemoveWord(s, word) ==
    IF Len(s) < Len(word) THEN s
    ELSE IF toLowerCase(SubSeq(s, 1, Len(word))) = word
    THEN RemoveWord(SubSeq(s, Len(word) + 1, Len(s)), word)
    ELSE <<s[1]>> \o RemoveWord(Tail(s), word)

\* The words sanitizeInput removes, in the order of its replace calls.
SanitizedWords ==
    <<<<"s", "c", "r", "i", "p", "t">>,
      <<"j", "a", "v", "a", "s", "c", "r", "i", "p", "t">>,
      <<"o", "n", "l", "o", "a", "d">>,
      <<"o", "n", "e", "r", "r", "o", "r">>,
      <<"o", "n", "c", "l", "i", "c", "k">>,
      <<"o", "n", "m", "o", "u", "s", "e", "o", "v", "e", "r">>,
      <<"o", "n", "f", "o", "c", "u", "s">>,
      <<"o", "n", "b", "l", "u", "r">>,
      <<"o", "n", "c", "h", "a", "n", "g", "e">>,
      <<"o", "n", "s", "u", "b", "m", "i", "t">>,
      <<"o", "n", "r", "e", "s", "e", "t">>,
      <<"o", "n", "s", "e", "l", "e", "c", "t">>,
      <<"o", "n", "k", "e", "y", "d", "o", "w", "n">>,
      <<"o", "n", "k", "e", "y", "u", "p">>,
      <<"o", "n", "k", "e", "y", "p", "r", "e", "s", "s">>>>

RECURSIVE RemoveWords(_, _)
RemoveWords(s, words) ==
    IF words = <<>> THEN s ELSE RemoveWords(RemoveWord(s, Head(words)), Tail(words))

\* sanitizeInput(input): a value that is not a string is returned as it is.
sanitizeInput(input) ==
    IF typeof(input) # "string" THEN input
    ELSE Str(RemoveWords(
             RemoveChars(trim(input.v), {"<", ">", "'", "\"", ";", "(", ")", "{", "}", "[", "]"}),
             SanitizedWords))

\* The text between the first and the second "@", or the text "undefined"
\* that the regular expression test makes of a missing split('@')[1].
RECURSIVE UpTo(_, _)
UpTo(s, ch) == IF s = <<>> \/ s[1] = ch THEN <<>> ELSE <<s[1]>> \o UpTo(Tail(s), ch)

RECURSIVE After(_, _)
After(s, ch) == IF s = <<>> THEN <<>> ELSE IF s[1] = ch THEN Tail(s) ELSE After(Tail(s), ch)

validDomains ==
    {<<"g", "m", "a", "i", "l", ".", "c", "o", "m">>,
     <<"y", "a", "h", "o", "o", ".", "c", "o", "m">>,
     <<"h", "o", "t", "m", "a", "i", "l", ".", "c", "o", "m">>,
     <<"o", "u", "t", "l", "o", "o", "k", ".", "c", "o", "m">>,
     <<"i", "c", "l", "o", "u", "d", ".", "c", "o", "m">>,
     <<"p", "r", "o", "t", "o", "n", "m", "a", "i", "l", ".", "c", "o", "m">>,
     <<"t", "u", "t", "a", "n", "o", "t", "a", ".", "c", "o", "m">>,
     <<"f", "a", "s", "t", "m", "a", "i", "l", ".", "c", "o", "m">>,
     <<"z", "o", "h", "o", ".", "c", "o", "m">>,
     <<"m", "a", "i", "l", ".", "c", "o", "m">>,
     <<"y", "a", "n", "d", "e", "x", ".", "c", "o", "m">>,
     <<"a", "o", "l", ".", "c", "o", "m">>}

\* One label of a domain name: 1 to 63 characters, letters, digits and
\* hyphens, no hyphen at either end.
DomainLabel(s) ==
    /\ Len(s) >= 1
    /\ Len(s) <= 63
    /\ AllIn(s, 1, Len(s), UpperAZ \cup LowerAZ \cup Digit09 \cup {"-"})
    /\ s[1] # "-"
    /\ s[Len(s)] # "-"

RECURSIVE DomainLabels(_)
DomainLabels(s) ==
    /\ DomainLabel(UpTo(s, "."))
    /\ ("." \in {s[i] : i \in 1..Len(s)}) => DomainLabels(After(s, "."))

isValidCustomDomain(domain) == DomainLabels(domain)

validateEmailDomain(email) ==
    IF "@" \notin {email[i] : i \in 1..Len(email)}
    THEN isValidCustomDomain(<<"u","n","d","e","f","i","n","e","d">>)
    ELSE LET domain == UpTo(After(email, "@"), "@")
         IN domain \in validDomains \/ isValidCustomDomain(domain)

\* NumericOf with the letters counted from one: A = 1 .. Z = 26.
NumericOf_lettersFromOne(ch) ==
    IF ch \in Digit09 THEN <<IndexOf(ch, DigitSeq) - 1>>
    ELSE IF ch \in UpperAZ
    THEN IF IndexOf(ch, UpperSeq) < 10 THEN <<IndexOf(ch, UpperSeq)>>
         ELSE <<IndexOf(ch, UpperSeq) \div 10, IndexOf(ch, UpperSeq) % 10>>
    ELSE <<-1>>

\* The digits a character of the rearranged IBAN turns into; a character
\* that is neither a letter nor a digit stays and parseInt makes NaN of it.
NumericOf(ch) ==
    IF ch \in Digit09 THEN <<IndexOf(ch, DigitSeq) - 1>>
    ELSE IF ch \in UpperAZ
    THEN <<(IndexOf(ch, UpperSeq) + 9) \div 10, (IndexOf(ch, UpperSeq) + 9) % 10>>
    ELSE <<-1>>

RECURSIVE Mod97(_, _)
Mod97(s, remainder) ==
    IF s = <<>> THEN remainder
    ELSE LET digits == NumericOf(s[1]) IN
        IF digits = <<-1>> \/ remainder = -1 THEN -1
        ELSE IF Len(digits) = 1
        THEN Mod97(Tail(s), (remainder * 10 + digits[1]) % 97)
        ELSE Mod97(Tail(s), (((remainder * 10 + digits[1]) % 97) * 10 + digits[2]) % 97)

validateIBANChecksum(iban) ==
    LET cleanIban == toUpperCase(StripWhitespace(iban))
        rearranged == SubSeq(cleanIban, 5, Len(cleanIban)) \o SubSeq(cleanIban, 1, IF Len(cleanIban) < 4 THEN Len(cleanIban) ELSE 4)
    IN Mod97(rearranged, 0) = 1

\* The Luhn loop of validateCardNumber, from the last digit to the first:
\* every second digit is doubled, and 9 is taken from a result above 9.
RECURSIVE LuhnSum(_, _)
LuhnSum(s, isEven) ==
    IF s = <<>> THEN 0
    ELSE LET digit == IndexOf(s[Len(s)], DigitSeq) - 1
             doubled == IF digit * 2 > 9 THEN digit * 2 - 9 ELSE digit * 2
         IN (IF isEven THEN doubled ELSE digit) + LuhnSum(SubSeq(s, 1, Len(s) - 1), ~isEven)

\* validateCardNumber with the doubling started at the last digit.
validateCardNumber_doubleFromLast(cardNumber) ==
    LET cleanNumber == StripWhitespace(cardNumber)
    IN /\ Len(cleanNumber) \in 13..19
       /\ \A i \in 1..Len(cleanNumber) : cleanNumber[i] \in Digit09
       /\ LuhnSum(cleanNumber, TRUE) % 10 = 0

\* validateCardNumber(cardNumber)
validateCardNumber(cardNumber) ==
    LET cleanNumber == StripWhitespace(cardNumber)
    IN /\ Len(cleanNumber) \in 13..19
       /\ \A i \in 1..Len(cleanNumber) : cleanNumber[i] \in Digit09
       /\ LuhnSum(cleanNumber, FALSE) % 10 = 0

PasswordSpecials == {"@", "$", "!", "%", "*", "?", "&"}

Has(s, class) == \E i \in 1..Len(s) : s[i] \in class

\* checkPasswordStrength(password).score
passwordScore(password) ==
    (IF Len(password) >= 8 THEN 1 ELSE 0)
    + (IF Has(password, LowerAZ) THEN 1 ELSE 0)
    + (IF Has(password, UpperAZ) THEN 1 ELSE 0)
    + (IF Has(password, Digit09) THEN 1 ELSE 0)
    + (IF Has(password, PasswordSpecials) THEN 1 ELSE 0)

\* The fields of validationRules in the order Object.entries gives them.
RuleFields == <<"firstName", "lastName", "username", "email", "phone",
                "shippingAddress", "iban", "bic", "bankAccountOwner", "password">>

\* minLength or maxLength 0: the rule has none.
validationRules ==
    [firstName |-> [required |-> TRUE, minLength |-> 2, maxLength |-> 50, sanitize |-> TRUE],
     lastName |-> [required |-> TRUE, minLength |-> 2, maxLength |-> 50, sanitize |-> TRUE],
     username |-> [required |-> TRUE, minLength |-> 3, maxLength |-> 30, sanitize |-> TRUE],
     email |-> [required |-> TRUE, minLength |-> 0, maxLength |-> 254, sanitize |-> TRUE],
     phone |-> [required |-> FALSE, minLength |-> 0, maxLength |-> 20, sanitize |-> TRUE],
     shippingAddress |-> [required |-> TRUE, minLength |-> 10, maxLength |-> 200, sanitize |-> TRUE],
     iban |-> [required |-> TRUE, minLength |-> 0, maxLength |-> 0, sanitize |-> TRUE],
     bic |-> [required |-> TRUE, minLength |-> 0, maxLength |-> 0, sanitize |-> TRUE],
     bankAccountOwner |-> [required |-> TRUE, minLength |-> 2, maxLength |-> 100, sanitize |-> TRUE],
     password |-> [required |-> TRUE, minLength |-> 8, maxLength |-> 128, sanitize |-> FALSE]]

\* rules.pattern.test(s) for the pattern of each field
patternTest(fieldName, s) ==
    CASE fieldName \in {"firstName", "lastName", "bankAccountOwner"} ->
            /\ Len(s) >= 1
            /\ AllIn(s, 1, Len(s), UpperAZ \cup LowerAZ \cup Latin1 \cup Whitespace \cup {"'", "-"})
      [] fieldName = "username" ->
            /\ Len(s) >= 1
            /\ AllIn(s, 1, Len(s), UpperAZ \cup LowerAZ \cup Digit09 \cup {"_", "-"})
      [] fieldName = "email" -> validateEmail(s)
      [] fieldName = "phone" ->
            LET digits == IF s # <<>> /\ s[1] = "+" THEN Tail(s) ELSE s IN
                /\ Len(digits) >= 1
                /\ Len(digits) <= 16
                /\ digits[1] \in Digit09 \ {"0"}
                /\ AllIn(digits, 2, Len(digits), Digit09)
      [] fieldName = "shippingAddress" ->
            /\ Len(s) >= 1
            /\ AllIn(s, 1, Len(s), UpperAZ \cup LowerAZ \cup Digit09 \cup Whitespace
                                      \cup {".", ",", "-", "'", "#", "/"})
      [] fieldName = "iban" ->
            /\ Len(s) >= 15
            /\ Len(s) <= 31
            /\ AllIn(s, 1, 2, UpperAZ)
            /\ AllIn(s, 3, 4, Digit09)
            /\ AllIn(s, 5, 8, UpperAZ \cup Digit09)
            /\ AllIn(s, 9, 15, Digit09)
            /\ AllIn(s, 16, Len(s), UpperAZ \cup Digit09)
      [] fieldName = "bic" -> validateBIC(s)
      [] fieldName = "password" ->
            /\ Has(s, LowerAZ)
            /\ Has(s, UpperAZ)
            /\ Has(s, Digit09)
            /\ Has(s, PasswordSpecials)
            /\ s[1] \in UpperAZ \cup LowerAZ \cup Digit09 \cup PasswordSpecials

FieldError(fieldName, message) == [field |-> fieldName, message |-> message]

\* The errors the checks after sanitizing add for one field, in their order.
fieldErrors(fieldName, s) ==
    LET rules == validationRules[fieldName] IN
        (IF rules.minLength # 0 /\ Len(s) < rules.minLength
         THEN <<FieldError(fieldName, "must be at least minLength characters long")>> ELSE <<>>)
        \o (IF rules.maxLength # 0 /\ Len(s) > rules.maxLength
            THEN <<FieldError(fieldName, "must not exceed maxLength characters")>> ELSE <<>>)
        \o (IF ~patternTest(fieldName, s)
            THEN <<FieldError(fieldName, "format is invalid")>> ELSE <<>>)
        \o (IF fieldName = "email" /\ ~validateEmailDomain(s)
            THEN <<FieldError(fieldName, "Email domain is not valid")>> ELSE <<>>)
        \o (IF fieldName = "iban" /\ ~validateIBANChecksum(s)
            THEN <<FieldError(fieldName, "IBAN checksum is invalid")>> ELSE <<>>)
        \o (IF fieldName = "password" /\ passwordScore(s) < 3
            THEN <<FieldError(fieldName, "Password is too weak. Please use a stronger password.")>>
            ELSE <<>>)

RECURSIVE ValidateFields_stopAtFirstError(_, _, _, _)
ValidateFields_stopAtFirstError(data, i, errors, sanitizedData) ==
    IF i > Len(RuleFields) \/ errors # <<>>
    THEN Resolved([errors |-> errors, sanitizedData |-> sanitizedData])
    ELSE LET fieldName == RuleFields[i]
             rules == validationRules[fieldName]
             value == Get(data, fieldName)
         IN IF Truthy(value) /\ typeof(value) # "string"
            THEN Thrown("TypeError: value.trim is not a function")
            ELSE IF ~Truthy(value) \/ trim(value.v) = <<>>
            THEN IF rules.required
                 THEN ValidateFields_stopAtFirstError(data, i + 1,
                                     Append(errors, FieldError(fieldName, "is required")),
                                     sanitizedData)
                 ELSE ValidateFields_stopAtFirstError(data, i + 1, errors,
                                     Spread(sanitizedData, fieldName :> Str(<<>>)))
            ELSE LET sanitizedValue == IF rules.sanitize THEN sanitizeInput(value) ELSE value
                 IN ValidateFields_stopAtFirstError(data, i + 1,
                                   errors \o fieldErrors(fieldName, sanitizedValue.v),
                                   Spread(sanitizedData, fieldName :> sanitizedValue))

\* The loop of validateRegistrationData from field number i on.  In
\* (!value || value.trim() === '') a value that is truthy and not a string
\* has no trim method: the call throws a TypeError, which nothing catches.
RECURSIVE ValidateFields(_, _, _, _)
ValidateFields(data, i, errors, sanitizedData) ==
    IF i > Len(RuleFields)
    THEN Resolved([errors |-> errors, sanitizedData |-> sanitizedData])
    ELSE LET fieldName == RuleFields[i]
             rules == validationRules[fieldName]
             value == Get(data, fieldName)
         IN IF Truthy(value) /\ typeof(value) # "string"
            THEN Thrown("TypeError: value.trim is not a function")
            ELSE IF ~Truthy(value) \/ trim(value.v) = <<>>
            THEN IF rules.required
                 THEN ValidateFields(data, i + 1,
                                     Append(errors, FieldError(fieldName, "is required")),
                                     sanitizedData)
                 ELSE ValidateFields(data, i + 1, errors,
                                     Spread(sanitizedData, fieldName :> Str(<<>>)))
            ELSE LET sanitizedValue == IF rules.sanitize THEN sanitizeInput(value) ELSE value
                 IN ValidateFields(data, i + 1,
                                   errors \o fieldErrors(fieldName, sanitizedValue.v),
                                   Spread(sanitizedData, fieldName :> sanitizedValue))

\* validateRegistrationData(data): the result object, or the error thrown.
validateRegistrationData(data) ==
    LET fields == ValidateFields(data, 1, <<>>, <<>>) IN
        IF ~fields.ok THEN fields
        ELSE LET errors == fields.value.errors
                     \o (IF ~Truthy(Get(data, "termsAccepted"))
                         THEN <<FieldError("termsAccepted", "Terms of Service must be accepted")>>
                         ELSE <<>>)
                     \o (IF ~Truthy(Get(data, "privacyAccepted"))
                         THEN <<FieldError("privacyAccepted", "Privacy Policy must be accepted")>>
                         ELSE <<>>)
             IN [isValid |-> errors = <<>>, errors |-> errors,
                 sanitizedData |-> fields.value.sanitizedData]

(***************************************************************************)
(* prepareSecureData: the record split into the encrypted sensitive part   *)
(* and the plain non-sensitive part.  t0 is the time of the call, t1 the   *)
(* time at which the encryption and the password hash have resolved.       *)
(***************************************************************************)
SensitiveFields == {"firstName", "lastName", "email", "phone",
                    "shippingAddress", "iban", "bic", "bankAccountOwner"}

sensitiveData_noPhone(userData) == [f \in SensitiveFields \ {"phone"} |-> Get(userData, f)]

sensitiveData(userData) == [f \in SensitiveFields |-> Get(userData, f)]

nonSensitiveData_withEmail(userData, t0) ==
    [registrationDate |-> ISOString(t0),
     termsAccepted |-> Get(userData, "termsAccepted"),
     privacyAccepted |-> Get(userData, "privacyAccepted"),
     emailVerified |-> Bool(FALSE),
     accountStatus |-> Str(<<"pending_verification">>),
     email |-> Get(userData, "email")]

nonSensitiveData(userData, t0) ==
    [registrationDate |-> ISOString(t0),
     termsAccepted |-> Get(userData, "termsAccepted"),
     privacyAccepted |-> Get(userData, "privacyAccepted"),
     emailVerified |-> Bool(FALSE),
     accountStatus |-> Str(<<"pending_verification">>)]

prepareSecureData(userData, password, salt, iv, t0, t1) ==
    [encryptedData |-> encryptUserData(sensitiveData(userData), password, salt, iv),
     nonSensitiveData |-> nonSensitiveData(userData, t0),
     hashedPassword |-> hashPassword(password),
     securityMetadata |->
        [encryptionAlgorithm |-> Str(<<algorithm>>),
         keyDerivation |-> Str(<<"PBKDF2">>),
         iterations |-> Num(iterations),
         saltLength |-> Num(saltLength),
         ivLength |-> Num(ivLength),
         tagLength |-> Num(tagLength),
         encryptedAt |-> ISOString(t1)]]

(***************************************************************************)
(* SecureStorageManager: constants, validation and session helpers.        *)
(***************************************************************************)
storagePrefix == "wax_encounters_"
userDataKey == "wax_encounters_user_data"
sessionKey == "wax_encounters_user_session"
StorageKeys == {userDataKey, sessionKey}

\* 30 days, in hours
maxStorageAge == 720

\* 24 hours of inactivity end a session
sessionTimeout == 24

requiredFields_eight == SensitiveFields

requiredFields == {"firstName", "lastName", "email", "shippingAddress",
                   "iban", "bic", "bankAccountOwner", "password"}

validateUserData_noFormats(userData) ==
    \A field \in requiredFields :
        /\ Truthy(Get(userData, field))
        /\ typeof(Get(userData, field)) = "string"

validateUserData(userData) ==
    /\ \A field \in requiredFields :
          /\ Truthy(Get(userData, field))
          /\ typeof(Get(userData, field)) = "string"
    /\ validateEmail(userData.email.v)
    /\ validateIBAN(userData.iban.v)
    /\ validateBIC(userData.bic.v)

\* getSession() on a given store
getSession(store) ==
    IF store[sessionKey] = null THEN null ELSE JSONparse(store[sessionKey])

\* setSession(sessionData) on a given store
setSession(store, sessionData) ==
    [store EXCEPT ![sessionKey] = [json |-> sessionData]]

\* updateSession(isActive): nothing happens when no session is stored.
updateSession(store, isActive, time) ==
    LET session == getSession(store) IN
        IF session # null
        THEN setSession(store, [session EXCEPT !.lastActivity = time, !.isActive = isActive])
        ELSE store

clearSession_keep(store) == store

clearSession(store) == [store EXCEPT ![sessionKey] = null]

isSessionValid_inclusive(store, time) ==
    LET session == getSession(store) IN
        IF session = null THEN FALSE
        ELSE session.isActive /\ (time - session.lastActivity) <= sessionTimeout

isSessionValid(store, time) ==
    LET session == getSession(store) IN
        IF session = null THEN FALSE
        ELSE session.isActive /\ (time - session.lastActivity) < sessionTimeout

cleanupExpiredData_inclusive(store, time) ==
    [key \in DOMAIN store |->
        IF store[key] = null THEN null
        ELSE IF ~IsJSON(store[key]) THEN null
        ELSE LET data == JSONparse(store[key]) IN
            IF /\ Truthy(Get(data, "storedAt"))
               /\ (time - data.storedAt.n) >= maxStorageAge
            THEN null
            ELSE store[key]]

\* cleanupExpiredData: prefixed items that are too old or do not parse are removed.
cleanupExpiredData(store, time) ==
    [key \in DOMAIN store |->
        IF store[key] = null THEN null
        ELSE IF ~IsJSON(store[key]) THEN null
        ELSE LET data == JSONparse(store[key]) IN
            IF /\ Truthy(Get(data, "storedAt"))
               /\ (time - data.storedAt.n) > maxStorageAge
            THEN null
            ELSE store[key]]

(***************************************************************************)
(* Inputs: the records, partial records and passwords that callers pass.   *)
(***************************************************************************)
PasswordA == Str(<<"S","3","c","r","e","t","!">>)
PasswordB == Str(<<"0","t","h","e","r","P","w">>)
Passwords == {PasswordA, PasswordB}

RecordAnn ==
    [firstName |-> Str(<<"A","n","n">>),
     lastName |-> Str(<<"L","e","e">>),
     email |-> Str(<<"a","n","n","@","w","a","x",".","i","o">>),
     phone |-> Str(<<"+","4","9","1","5","1">>),
     shippingAddress |-> Str(<<"1"," ","M","a","i","n"," ","S","t","r","e","e","t">>),
     iban |-> Str(<<"D","E","8","9","3","7","0","4","0","0","4","4",
                    "0","5","3","2","0","1","3","0","0","0">>),
     bic |-> Str(<<"C","O","B","A","D","E","F","F">>),
     bankAccountOwner |-> Str(<<"A","n","n"," ","L","e","e">>),
     password |-> PasswordA,
     termsAccepted |-> Bool(TRUE),
     privacyAccepted |-> Bool(TRUE)]

RecordBob ==
    [firstName |-> Str(<<"B","o","b">>),
     lastName |-> Str(<<"R","a","y">>),
     email |-> Str(<<"b","o","b","@","v","i","n","y","l",".","d","e">>),
     phone |-> Str(<<"3","0","1","2">>),
     shippingAddress |-> Str(<<"2"," ","S","i","d","e"," ","R","o","a","d">>),
     iban |-> Str(<<"G","B","8","2","W","E","S","T","1","2","3","4",
                    "5","6","9","8","7","6","5","4","3","2">>),
     bic |-> Str(<<"D","E","U","T","D","E","F","F","5","0","0">>),
     bankAccountOwner |-> Str(<<"B","o","b"," ","R","a","y">>),
     password |-> PasswordB,
     termsAccepted |-> Bool(TRUE),
     privacyAccepted |-> Bool(TRUE),
     username |-> Str(<<"b","o","b","b","y">>)]

Without(obj, k) == [j \in (DOMAIN obj) \ {k} |-> obj[j]]
With(obj, k, value) == Spread(obj, k :> value)

\* One record per way a field can be missing, empty or of the wrong type,
\* and per format check.
FormRecords ==
    {RecordAnn, RecordBob}
    \cup {Without(RecordAnn, f) : f \in SensitiveFields \cup {"password"}}
    \cup {With(RecordAnn, f, Str(<<>>)) : f \in SensitiveFields \cup {"password"}}
    \cup {With(RecordAnn, f, Num(7)) : f \in SensitiveFields \cup {"password"}}
    \cup {With(RecordAnn, "email", Str(<<"a","n","n","@","w","a","x">>)),
          With(RecordAnn, "email", Str(<<"a","n","n",".","w","a","x",".","i","o">>)),
          With(RecordAnn, "iban", Str(<<"D","E","8","9","3","7","0","4">>)),
          With(RecordAnn, "iban", Str(<<"D","E","8","9"," ","3","7","0","4"," ","0","0","4","4"," ",
                                        "0","5","3","2"," ","0","1","3","0"," ","0","0">>)),
          With(RecordAnn, "bic", Str(<<"c","o","b","a","d","e","f","f">>)),
          With(RecordAnn, "bic", Str(<<"C","O","B","A","D","E","F","F","5">>))}

\* The records used where the environment tampers with the store.
UserDatas == {RecordAnn, RecordBob, Without(RecordAnn, "password")}

\* The partial records passed to updateUserData.
PartialZoe == [firstName |-> Str(<<"Z","o","e">>)]
PartialKim == [lastName |-> Str(<<"K","i","m">>), password |-> PasswordA]
Partials == {PartialZoe, PartialKim}

\* The registration forms passed to validateRegistrationData: a form that is
\* in order, and forms in which one field, or firstName and password both,
\* is absent, blank, of another type or a string that breaks a rule.
RegistrationAnn ==
    [firstName |-> Str(<<"A","n","n">>),
     lastName |-> Str(<<"L","e","e">>),
     username |-> Str(<<"a","n","n","_","l","e","e">>),
     email |-> Str(<<"a","n","n","@","w","a","x",".","i","o">>),
     phone |-> Str(<<"+","4","9","1","5","1">>),
     shippingAddress |-> Str(<<"1"," ","M","a","i","n"," ","S","t","r","e","e","t">>),
     iban |-> Str(<<"D","E","8","9","3","7","0","4","0","0","4","4","0","5","3","2","0","1","3","0","0","0">>),
     bic |-> Str(<<"C","O","B","A","D","E","F","F">>),
     bankAccountOwner |-> Str(<<"A","n","n"," ","L","e","e">>),
     password |-> Str(<<"S","3","c","r","e","t","!","x">>),
     termsAccepted |-> Bool(TRUE),
     privacyAccepted |-> Bool(TRUE)]

RegistrationFields == DOMAIN RegistrationAnn

OddValues == {Str(<<>>), Str(<<" ", " ">>), Num(7), Num(0), Bool(TRUE), Bool(FALSE), Obj}

RegistrationDatas ==
    {RegistrationAnn}
    \cup {Without(RegistrationAnn, f) : f \in RegistrationFields}
    \cup {With(RegistrationAnn, f, v) : f \in RegistrationFields, v \in OddValues}
    \cup {With(With(RegistrationAnn, "firstName", v), "password", w) : v, w \in OddValues}
    \cup {With(RegistrationAnn, "firstName", Str(<<" ","<","S","c","r","i","p","t",">","A"," ">>)),
          With(RegistrationAnn, "username", Str(<<"a","!">>)),
          With(RegistrationAnn, "email", Str(<<"a","n","n",".","w","a","x",".","i","o">>)),
          With(RegistrationAnn, "phone", Str(<<"0","3","0","1">>)),
          With(RegistrationAnn, "iban", Str(<<"D","E","8","9","3","7","0","4","0","0","4","4","0","5","3","2","0","1","3","0","0","1">>)),
          With(RegistrationAnn, "password", Str(<<"p","a","s","s","w","o","r","d">>))}

\* The (action, identifier) pairs that callers of checkRateLimit pass, as
\* the pieces of text they are made of.
\* The texts handed to sanitizeInput: up to MaxPieces pieces of text, one
\* after the other, and one value that is not a string.
MaxPieces == 3

InputPieces ==
    {<<"s", "c", "r">>, <<"i", "p", "t">>, <<"S", "c", "R", "i", "P", "t">>,
     <<"o", "n", "l", "o">>, <<"a", "d">>, <<"o", "n", "c", "l", "i", "c", "k">>,
     <<"<">>, <<" ">>}

RECURSIVE Concat(_)
Concat(pieces) == IF pieces = <<>> THEN <<>> ELSE Head(pieces) \o Concat(Tail(pieces))

SanitizeInputs ==
    {Str(Concat(pieces)) : pieces \in UNION {[1..n -> InputPieces] : n \in 0..MaxPieces}}
    \cup {Num(7)}

\* The IBANs handed to validateIBANChecksum: two that pass, each of them with
\* one decimal digit replaced by another, and texts that are no IBAN.
IbanDE == <<"D","E","8","9","3","7","0","4","0","0","4","4","0","5","3","2","0","1","3","0","0","0">>
IbanGB == <<"G","B","8","2","W","E","S","T","1","2","3","4","5","6","9","8","7","6","5","4","3","2">>

SingleDigitChanges(s) ==
    {[s EXCEPT ![i] = d] : i \in {j \in 1..Len(s) : s[j] \in Digit09}, d \in Digit09} \ {s}

Ibans ==
    {IbanDE, IbanGB}
    \cup SingleDigitChanges(IbanDE) \cup SingleDigitChanges(IbanGB)
    \cup {<<>>, <<"D","E","8">>, toLowerCase(IbanDE),
          <<"D","E","8","9"," ">> \o SubSeq(IbanDE, 5, 22),
          <<"D","E","8","9","-">> \o SubSeq(IbanDE, 5, 22),
          <<"9","8">>, <<"1">>}

\* The card numbers handed to validateCardNumber: numbers that pass, each of
\* them with one digit replaced by another, numbers of 12, 13, 19 and 20
\* digits, and texts with blanks and with a character that is no digit.
CardVisa16 == <<"4","5","3","2","0","1","5","1","1","2","8","3","0","3","6","6">>
CardVisa13 == <<"4","2","2","2","2","2","2","2","2","2","2","2","2">>

Zeros(n) == [i \in 1..n |-> "0"]

CardNumbers ==
    {CardVisa16, CardVisa13, [CardVisa16 EXCEPT ![16] = "7"]}
    \cup SingleDigitChanges(CardVisa16) \cup SingleDigitChanges(CardVisa13)
    \cup {Zeros(n) : n \in {12, 13, 19, 20}}
    \cup {<<>>,
          SubSeq(CardVisa16, 1, 4) \o <<" ">> \o SubSeq(CardVisa16, 5, 8) \o <<" ">>
              \o SubSeq(CardVisa16, 9, 12) \o <<" ">> \o SubSeq(CardVisa16, 13, 16),
          SubSeq(CardVisa16, 1, 4) \o <<"-">> \o SubSeq(CardVisa16, 5, 16),
          [CardVisa16 EXCEPT ![1] = "A"]}

RateActions == {<<"login">>, <<"register">>}
RateIdentifiers == {<<"ann">>}

\* `rate_limit_${action}_${identifier}`
rateLimitKey(action, identifier) == <<"rate_limit_">> \o action \o <<"_">> \o identifier

\* Two pairs of which the one's identifier starts with what the other's
\* action ends with.
CollidingPairs ==
    {<<<<"register">>, <<"ann", "_", "x">>>>, <<<<"register", "_", "ann">>, <<"x">>>>}

RatePairs == (RateActions \X RateIdentifiers) \cup CollidingPairs

RateKeys == {rateLimitKey(pair[1], pair[2]) : pair \in RatePairs}

\* The limit and the window each caller passes for its action.
limitOf(action) == IF action = <<"login">> THEN 2 ELSE 1
windowOf(action) == IF action = <<"login">> THEN 3 ELSE 2

(***************************************************************************)
(* ServerValidation.checkRateLimit on the attempts stored under one key:   *)
(* the result object and the attempts to store (the stored list is left as *)
(* it is when the call is denied).                                         *)
(***************************************************************************)
checkRateLimit_closedWindow(stored, time, limit, windowMs) ==
    LET windowStart == time - windowMs
        attempts == SelectSeq(stored, LAMBDA timestamp : timestamp >= windowStart)
    IN IF Len(attempts) >= limit
       THEN [result |-> [allowed |-> FALSE, remaining |-> 0,
                         resetTime |-> attempts[1] + windowMs],
             attempts |-> stored]
       ELSE [result |-> [allowed |-> TRUE, remaining |-> limit - (Len(attempts) + 1),
                         resetTime |-> time + windowMs],
             attempts |-> Append(attempts, time)]

checkRateLimit(stored, time, limit, windowMs) ==
    LET windowStart == time - windowMs
        attempts == SelectSeq(stored, LAMBDA timestamp : timestamp > windowStart)
    IN IF Len(attempts) >= limit
       THEN [result |-> [allowed |-> FALSE, remaining |-> 0,
                         resetTime |-> attempts[1] + windowMs],
             attempts |-> stored]
       ELSE [result |-> [allowed |-> TRUE, remaining |-> limit - (Len(attempts) + 1),
                         resetTime |-> time + windowMs],
             attempts |-> Append(attempts, time)]

(***************************************************************************)
(* PurchaseTracker: the uploaded records and the purchases made of them.   *)
(* Quantities are whole numbers; a record is a function from property      *)
(* names to values.                                                        *)
(***************************************************************************)
MaxStock == 3
MaxRecords == 2

\* The ids generateRecordId gives out, one per record, in this order, and
\* one more that no record has.
RecordId(n) == <<"record_", n>>
RecordIds == {RecordId(n) : n \in 1..(MaxRecords + 1)}

\* What the admin upload hands to addRecord.
RecordDatas ==
    {[type |-> "immediate", quantity |-> n] : n \in 0..MaxStock}
    \cup {[type |-> "crowdfunding", fundingGoal |-> 2]}

\* The record addRecord(recordData) makes.
addRecord(recordData, id, time) ==
    Spread(Spread([id |-> id], recordData),
           Spread([uploadedAt |-> time,
                   status |-> IF recordData.type = "immediate" THEN "available" ELSE "campaign"],
                  IF recordData.type = "immediate"
                  THEN [sold |-> 0]
                  ELSE [raised |-> 0, backers |-> 0]))

\* this.records.find(r => r.id === recordId): the index of the first record
\* with that id, or 0.
FindRecord(recs, recordId) ==
    IF \E i \in 1..Len(recs) : recs[i].id = recordId
    THEN CHOOSE i \in 1..Len(recs) :
            /\ recs[i].id = recordId
            /\ \A j \in 1..(i - 1) : recs[j].id # recordId
    ELSE 0

\* processImmediatePurchase without the stock check.
processImmediatePurchase_noStockCheck(recs, recordId, quantity) ==
    LET i == FindRecord(recs, recordId) IN
        IF i = 0 \/ recs[i].type # "immediate"
        THEN [result |-> FALSE, records |-> recs, saved |-> FALSE]
        ELSE LET left == recs[i].quantity - quantity
                 record == [recs[i] EXCEPT !.quantity = left,
                                           !.sold = @ + quantity,
                                           !.status = IF left <= 0 THEN "out_of_stock" ELSE @]
             IN [result |-> TRUE, records |-> [recs EXCEPT ![i] = record], saved |-> TRUE]

\* processImmediatePurchase(recordId, quantity): what it returns, the records
\* it leaves in memory, and whether it has called saveRecords.
processImmediatePurchase(recs, recordId, quantity) ==
    LET i == FindRecord(recs, recordId) IN
        IF i = 0 \/ recs[i].type # "immediate"
        THEN [result |-> FALSE, records |-> recs, saved |-> FALSE]
        ELSE IF recs[i].quantity < quantity
        THEN [result |-> FALSE, records |-> recs, saved |-> FALSE]
        ELSE LET left == recs[i].quantity - quantity
                 record == [recs[i] EXCEPT !.quantity = left,
                                           !.sold = @ + quantity,
                                           !.status = IF left <= 0 THEN "out_of_stock" ELSE @]
             IN [result |-> TRUE, records |-> [recs EXCEPT ![i] = record], saved |-> TRUE]

(***************************************************************************)
(* The calls.  JavaScript runs the code between two awaits as one step, so *)
(* every action below is one such stretch of one call; other handlers run  *)
(* between the steps.                                                      *)
(***************************************************************************)
NoArgs == [op |-> "none"]
NoLocal == [none |-> TRUE]
NoRet == [none |-> TRUE]
Unwritten == [by |-> NoArgs, tampered |-> {}]

\* Result objects
Success(fields) == Spread([success |-> TRUE], fields)

Failure_rethrown(message) == Thrown(message)

\* What a catch block returns for the error it caught.
Failure(message) == [success |-> FALSE, error |-> message]

\* The call of handler p settles with `result`; the stored session and the
\* clock at that moment are recorded with it.
Settle(p, result, store) ==
    /\ pc' = [pc EXCEPT ![p] = "done"]
    /\ ret' = [ret EXCEPT ![p] = [result |-> result,
                                  session |-> getSession(store),
                                  time |-> now]]

\* The page has loaded on an empty store: the DOMContentLoaded listener has
\* run initialize(), which stored a new inactive session.
Init ==
    /\ \E token \in SessionTokens :
          localStorage = setSession([key \in StorageKeys |-> null],
                                    [sessionId |-> token, createdAt |-> 1,
                                     lastActivity |-> 1, isActive |-> FALSE])
    /\ now = 1
    /\ pc = [p \in Procs |-> "idle"]
    /\ args = [p \in Procs |-> NoArgs]
    /\ local = [p \in Procs |-> NoLocal]
    /\ ret = [p \in Procs |-> NoRet]
    /\ written = Unwritten
    /\ storageFull = FALSE
    /\ rateLimitStore = [key \in RateKeys |-> <<>>]
    /\ allowed = [key \in RateKeys |-> <<>>]
    /\ allowedOf = [pair \in RatePairs |-> <<>>]
    /\ records = <<>>
    /\ uploadedRecords = <<>>
    /\ overtaken = {}

\* Date.now() advances.  The clock counts hours and a call takes milliseconds,
\* so it advances between calls.
Tick ==
    /\ now < MaxTime
    /\ \A p \in Procs : pc[p] \in {"idle", "done"}
    /\ now' = now + 1
    /\ UNCHANGED <<localStorage, pc, args, local, ret, written, storageFull, serverVars, trackerVars, overtaken>>

\* The clock advances by d, d one of `idles`, while no call is in flight and
\* the clock does not pass `horizon`.
Sleep(idles, horizon) ==
    /\ \A p \in Procs : pc[p] \in {"idle", "done"}
    /\ \E d \in idles :
          /\ now + d <= horizon
          /\ now' = now + d
    /\ UNCHANGED <<localStorage, pc, args, local, ret, written, storageFull, serverVars, trackerVars, overtaken>>

\* The caller has consumed the result; the handler can take the next event.
HandlerDone(p) ==
    /\ pc[p] = "done"
    /\ pc' = [pc EXCEPT ![p] = "idle"]
    /\ args' = [args EXCEPT ![p] = NoArgs]
    /\ local' = [local EXCEPT ![p] = NoLocal]
    /\ ret' = [ret EXCEPT ![p] = NoRet]
    /\ overtaken' = overtaken \ {p}
    /\ UNCHANGED <<localStorage, now, written, storageFull, serverVars, trackerVars>>

---------------------------------------------------------------------------
\* What a call finds under each key: nothing, text that is not JSON, or JSON.
ItemsFound(store) ==
    [key \in DOMAIN store |->
        IF store[key] = null THEN "absent"
        ELSE IF IsJSON(store[key]) THEN "JSON" ELSE "not JSON"]

\* isStorageAvailable(): the probe setItem throws on a store that takes no writes.
isStorageAvailable == ~storageFull

\* initialize(): storage probe and cleanupExpiredData, up to the first await.
\* When the probe fails, the Error thrown is caught and false is returned.
Initialize(p) ==
    /\ pc[p] = "idle"
    /\ args' = [args EXCEPT ![p] = [op |-> "initialize"]]
    /\ local' = [local EXCEPT ![p] = [before |-> ItemsFound(localStorage)]]
    /\ IF ~isStorageAvailable
       THEN /\ Settle(p, FALSE, localStorage)
            /\ UNCHANGED <<localStorage, written>>
       ELSE /\ localStorage' = cleanupExpiredData(localStorage, now)
            /\ written' = IF localStorage'[userDataKey] = localStorage[userDataKey]
                          THEN written ELSE Unwritten
            /\ pc' = [pc EXCEPT ![p] = "init_session"]
            /\ UNCHANGED ret
    /\ UNCHANGED <<now, storageFull, serverVars, trackerVars, overtaken>>

InitializeSession_overwrite(p) ==
    /\ pc[p] = "init_session"
    /\ \E token \in SessionTokens :
          localStorage' = setSession(localStorage,
                                     [sessionId |-> token, createdAt |-> now,
                                      lastActivity |-> now, isActive |-> FALSE])
    /\ pc' = [pc EXCEPT ![p] = "init_return"]
    /\ UNCHANGED <<now, args, local, ret, written, storageFull, serverVars, trackerVars, overtaken>>

\* initializeSession(): a new inactive session when none is stored.  When
\* setSession throws, initialize() catches the error and returns false.
InitializeSession(p) ==
    /\ pc[p] = "init_session"
    /\ IF getSession(localStorage) = null /\ storageFull
       THEN /\ Settle(p, FALSE, localStorage)
            /\ UNCHANGED localStorage
       ELSE /\ \E token \in SessionTokens :
                  localStorage' =
                      IF getSession(localStorage) = null
                      THEN setSession(localStorage,
                                      [sessionId |-> token, createdAt |-> now,
                                       lastActivity |-> now, isActive |-> FALSE])
                      ELSE localStorage
            /\ pc' = [pc EXCEPT ![p] = "init_return"]
            /\ UNCHANGED ret
    /\ UNCHANGED <<now, args, local, written, storageFull, serverVars, trackerVars, overtaken>>

InitializeReturn(p) ==
    /\ pc[p] = "init_return"
    /\ Settle(p, TRUE, localStorage)
    /\ UNCHANGED <<localStorage, now, args, local, written, storageFull, serverVars, trackerVars, overtaken>>

---------------------------------------------------------------------------
\* storeUserData up to its first await: validation, then prepareSecureData
\* starts (it reads the clock and draws the salt and the IV).
BeginStore(p, userData, password) ==
    IF ~validateUserData(userData)
    THEN /\ Settle(p, Failure("Invalid user data provided"), localStorage)
         /\ UNCHANGED local
    ELSE /\ \E salt \in Salts, iv \in IVs :
               local' = [local EXCEPT ![p] =
                   [userData |-> userData, password |-> password,
                    salt |-> salt, iv |-> iv, t0 |-> now]]
         /\ pc' = [pc EXCEPT ![p] = "store_prepare"]
         /\ UNCHANGED ret

StoreUserData(p, userData, password) ==
    /\ pc[p] = "idle"
    /\ args' = [args EXCEPT ![p] = [op |-> "store", userData |-> userData, password |-> password]]
    /\ BeginStore(p, userData, password)
    /\ UNCHANGED <<localStorage, now, written, storageFull, serverVars, trackerVars, overtaken>>

\* prepareSecureData has resolved: the storage object gets its metadata.
storageObjectOf(secureData, time) ==
    Spread(secureData, [storedAt |-> Num(time), version |-> Str(<<"1", ".", "0">>)])

\* The hash is taken over the storage object, metadata included.
hashedObjectOf_beforeMetadata(storageObject) ==
    [k \in (DOMAIN storageObject) \ {"storedAt", "version"} |-> storageObject[k]]

hashedObjectOf(storageObject) == storageObject

StorePrepared(p) ==
    /\ pc[p] = "store_prepare"
    /\ LET l == local[p]
           secureData == prepareSecureData(l.userData, l.password, l.salt, l.iv, l.t0, now)
       IN local' = [local EXCEPT ![p] =
              [userData |-> l.userData, password |-> l.password,
               storageObject |-> storageObjectOf(secureData, now)]]
    /\ pc' = [pc EXCEPT ![p] = "store_hash"]
    /\ UNCHANGED <<localStorage, now, args, ret, written, storageFull, serverVars, trackerVars, overtaken>>

\* generateDataHash has resolved: the hash is attached, the envelope is
\* written in one setItem and updateSession(true) runs.  When setItem throws,
\* nothing is written and the catch block returns the error's message.
StoreWrite(p) ==
    /\ pc[p] = "store_hash"
    /\ IF storageFull
       THEN /\ Settle(p, Failure("QuotaExceededError"), localStorage)
            /\ UNCHANGED <<localStorage, written>>
       ELSE /\ LET l == local[p]
                   dataHash == generateDataHash(hashedObjectOf(l.storageObject))
                   envelope == Spread(l.storageObject, [dataHash |-> dataHash])
                   stored == [localStorage EXCEPT ![userDataKey] = stringifyEnvelope(envelope)]
               IN /\ localStorage' = updateSession(stored, TRUE, now)
                  /\ written' = [by |-> [userData |-> l.userData, password |-> l.password],
                                 tampered |-> {}]
            /\ pc' = [pc EXCEPT ![p] = "store_session"]
            /\ UNCHANGED ret
    /\ UNCHANGED <<now, args, local, storageFull, serverVars, trackerVars, overtaken>>

\* The result object reads this.getSession().sessionId; with no session
\* stored that throws, and the catch block returns the failure.
StoreReturn(p) ==
    /\ pc[p] = "store_session"
    /\ LET session == getSession(localStorage) IN
          IF session = null
          THEN Settle(p, Failure("Cannot read properties of null"), localStorage)
          ELSE Settle(p, Success([sessionId |-> session.sessionId,
                                  message |-> "User data stored securely"]),
                      localStorage)
    /\ UNCHANGED <<localStorage, now, args, local, written, storageFull, serverVars, trackerVars, overtaken>>

---------------------------------------------------------------------------
\* const { dataHash, ...dataToVerify } = parsedData
dataToVerifyOf(parsedData) == [k \in (DOMAIN parsedData) \ {"dataHash"} |-> parsedData[k]]

\* What the caller of retrieveUserData makes of a failed retrieval.
RetrievalFailure(op, result) ==
    CASE op = "retrieve" -> result
      [] op = "update" -> Failure("Cannot retrieve existing data")
      [] op = "export" -> Failure("Cannot retrieve user data")

\* retrieveUserData up to its first await: the envelope is read and parsed,
\* and verifyDataIntegrity starts on the parsed copy.
BeginRetrieve(p, op) ==
    LET storedData == localStorage[userDataKey] IN
        IF storedData = null
        THEN /\ Settle(p, RetrievalFailure(op, Failure("No user data found")), localStorage)
             /\ UNCHANGED local
        ELSE IF ~IsJSON(storedData)
        THEN /\ Settle(p, RetrievalFailure(op, Failure("Failed to retrieve user data")), localStorage)
             /\ UNCHANGED local
        ELSE /\ local' = [local EXCEPT ![p] =
                    [parsedData |-> JSONparse(storedData),
                     readOf |-> written,
                     decryptCalled |-> FALSE]]
             /\ pc' = [pc EXCEPT ![p] = "retrieve_verify"]
             /\ UNCHANGED ret

RetrieveUserData(p, password) ==
    /\ pc[p] = "idle"
    /\ args' = [args EXCEPT ![p] = [op |-> "retrieve", password |-> password]]
    /\ BeginRetrieve(p, "retrieve")
    /\ UNCHANGED <<localStorage, now, written, storageFull, serverVars, trackerVars, overtaken>>

\* RetrieveVerified with updateSession(true) run before the integrity check
\* is looked at.
RetrieveVerified_sessionFirst(p) ==
    /\ pc[p] = "retrieve_verify"
    /\ LET parsedData == local[p].parsedData
           isValid == verifyDataIntegrity(dataToVerifyOf(parsedData), Get(parsedData, "dataHash"))
       IN IF ~isValid
          THEN /\ Settle(p, RetrievalFailure(args[p].op, Failure("Failed to retrieve user data")),
                         localStorage)
               /\ UNCHANGED local
          ELSE /\ local' = [local EXCEPT ![p].decryptCalled = TRUE]
               /\ pc' = [pc EXCEPT ![p] = "retrieve_decrypt"]
               /\ UNCHANGED ret
    /\ localStorage' = updateSession(localStorage, TRUE, now)
    /\ UNCHANGED <<now, args, written, storageFull, serverVars, trackerVars, overtaken>>

\* verifyDataIntegrity has resolved: a mismatch throws before decryption;
\* otherwise decryptUserData is called.
RetrieveVerified(p) ==
    /\ pc[p] = "retrieve_verify"
    /\ LET parsedData == local[p].parsedData
           isValid == verifyDataIntegrity(dataToVerifyOf(parsedData), Get(parsedData, "dataHash"))
       IN IF ~isValid
          THEN /\ Settle(p, RetrievalFailure(args[p].op, Failure("Failed to retrieve user data")),
                         localStorage)
               /\ UNCHANGED local
          ELSE /\ local' = [local EXCEPT ![p].decryptCalled = TRUE]
               /\ pc' = [pc EXCEPT ![p] = "retrieve_decrypt"]
               /\ UNCHANGED ret
    /\ UNCHANGED <<localStorage, now, args, written, storageFull, serverVars, trackerVars, overtaken>>

\* decryptUserData has settled: a thrown error becomes the generic failure;
\* otherwise updateSession(true) runs, and an error that its setSession throws
\* becomes the generic failure as well.
RetrieveDecrypted(p) ==
    /\ pc[p] = "retrieve_decrypt"
    /\ LET decrypted == decryptUserData(local[p].parsedData.encryptedData, args[p].password)
       IN /\ local' = [local EXCEPT ![p] =
                 [parsedData |-> local[p].parsedData,
                  readOf |-> local[p].readOf,
                  decryptCalled |-> TRUE,
                  decrypted |-> decrypted]]
          /\ IF ~decrypted.ok \/ (getSession(localStorage) # null /\ storageFull)
             THEN /\ Settle(p, RetrievalFailure(args[p].op, Failure("Failed to retrieve user data")),
                            localStorage)
                  /\ UNCHANGED localStorage
             ELSE /\ localStorage' = updateSession(localStorage, TRUE, now)
                  /\ pc' = [pc EXCEPT ![p] = "retrieve_session"]
                  /\ UNCHANGED ret
    /\ UNCHANGED <<now, args, written, storageFull, serverVars, trackerVars, overtaken>>

\* { ...decryptedData, ...parsedData.nonSensitiveData }
retrievedData(decryptedData, parsedData) == Spread(decryptedData, parsedData.nonSensitiveData)

\* retrieveUserData returns its data to the caller.
RetrieveReturn(p) ==
    /\ pc[p] = "retrieve_session"
    /\ args[p].op = "retrieve"
    /\ Settle(p, Success([data |-> retrievedData(local[p].decrypted.value, local[p].parsedData)]),
              localStorage)
    /\ UNCHANGED <<localStorage, now, args, local, written, storageFull, serverVars, trackerVars, overtaken>>

---------------------------------------------------------------------------
\* updateUserData: retrieveUserData first.
UpdateUserData(p, updatedData, password) ==
    /\ pc[p] = "idle"
    /\ args' = [args EXCEPT ![p] = [op |-> "update", userData |-> updatedData, password |-> password]]
    /\ BeginRetrieve(p, "update")
    /\ UNCHANGED <<localStorage, now, written, storageFull, serverVars, trackerVars, overtaken>>

\* { ...existingData.data, ...updatedData }
mergedDataOf(existing, updatedData) == Spread(existing, updatedData)

\* The retrieval succeeded: merge, then storeUserData(mergedData, password)
\* runs up to its first await.
UpdateMerge(p) ==
    /\ pc[p] = "retrieve_session"
    /\ args[p].op = "update"
    /\ BeginStore(p,
                  mergedDataOf(retrievedData(local[p].decrypted.value, local[p].parsedData),
                               args[p].userData),
                  args[p].password)
    /\ UNCHANGED <<localStorage, now, args, written, storageFull, serverVars, trackerVars, overtaken>>

---------------------------------------------------------------------------
\* deleteUserData has no await: it runs as one step.  The storeUserData and
\* updateUserData calls that are suspended at an await while it runs are noted.
DeleteUserData(p) ==
    /\ pc[p] = "idle"
    /\ args' = [args EXCEPT ![p] = [op |-> "delete"]]
    /\ localStorage' = clearSession([localStorage EXCEPT ![userDataKey] = null])
    /\ written' = Unwritten
    /\ local' = [local EXCEPT ![p] = [before |-> ItemsFound(localStorage)]]
    /\ Settle(p, Success([message |-> "User data deleted successfully"]), localStorage')
    /\ overtaken' = overtaken \cup {q \in Procs : pc[q] \notin {"idle", "done"}
                                                   /\ args[q].op \in {"store", "update"}}
    /\ UNCHANGED <<now, storageFull, serverVars, trackerVars>>

---------------------------------------------------------------------------
\* isSessionValid() has no await: it runs as one step.
IsSessionValid(p) ==
    /\ pc[p] = "idle"
    /\ args' = [args EXCEPT ![p] = [op |-> "isSessionValid"]]
    /\ Settle(p, isSessionValid(localStorage, now), localStorage)
    /\ UNCHANGED <<localStorage, now, local, written, storageFull, serverVars, trackerVars, overtaken>>

---------------------------------------------------------------------------
\* A checkRateLimit(identifier, action, limit, windowMs) call: one step.  The
\* call has no try block: an error thrown by setItem reaches the caller.
CheckRateLimit(p, identifier, action) ==
    /\ pc[p] = "idle"
    /\ LET key == rateLimitKey(action, identifier)
           limit == limitOf(action)
           windowMs == windowOf(action)
           outcome == checkRateLimit(rateLimitStore[key], now, limit, windowMs)
       IN /\ args' = [args EXCEPT ![p] =
                  [op |-> "checkRateLimit", identifier |-> identifier, action |-> action,
                   key |-> key, limit |-> limit, windowMs |-> windowMs]]
          /\ local' = [local EXCEPT ![p] =
                  [stored |-> rateLimitStore[key], earlier |-> allowed[key],
                   own |-> allowedOf[<<action, identifier>>]]]
          /\ IF outcome.result.allowed /\ storageFull
             THEN /\ Settle(p, Thrown("QuotaExceededError"), localStorage)
                  /\ UNCHANGED <<rateLimitStore, allowed, allowedOf>>
             ELSE /\ Settle(p, outcome.result, localStorage)
                  /\ rateLimitStore' = [rateLimitStore EXCEPT ![key] = outcome.attempts]
                  /\ allowed' = [allowed EXCEPT ![key] =
                         IF outcome.result.allowed THEN Append(@, now) ELSE @]
                  /\ allowedOf' = [allowedOf EXCEPT ![<<action, identifier>>] =
                         IF outcome.result.allowed THEN Append(@, now) ELSE @]
    /\ UNCHANGED <<localStorage, now, written, storageFull, trackerVars, overtaken>>

---------------------------------------------------------------------------
\* A validateRegistrationData(data) call: one step.
ValidateRegistrationData(p, data) ==
    /\ pc[p] = "idle"
    /\ args' = [args EXCEPT ![p] = [op |-> "validateRegistrationData", data |-> data]]
    /\ Settle(p, validateRegistrationData(data), localStorage)
    /\ UNCHANGED <<localStorage, now, local, written, storageFull, serverVars, trackerVars, overtaken>>

---------------------------------------------------------------------------
\* A sanitizeInput(input) call: one step.
SanitizeInput(p, input) ==
    /\ pc[p] = "idle"
    /\ args' = [args EXCEPT ![p] = [op |-> "sanitizeInput", input |-> input]]
    /\ Settle(p, sanitizeInput(input), localStorage)
    /\ UNCHANGED <<localStorage, now, local, written, storageFull, serverVars, trackerVars, overtaken>>

---------------------------------------------------------------------------
\* A validateIBANChecksum(iban) call: one step.
ValidateIBANChecksum(p, iban) ==
    /\ pc[p] = "idle"
    /\ args' = [args EXCEPT ![p] = [op |-> "validateIBANChecksum", iban |-> iban]]
    /\ Settle(p, validateIBANChecksum(iban), localStorage)
    /\ UNCHANGED <<localStorage, now, local, written, storageFull, serverVars, trackerVars, overtaken>>

---------------------------------------------------------------------------
\* A validateCardNumber(cardNumber) call: one step.
ValidateCardNumber(p, cardNumber) ==
    /\ pc[p] = "idle"
    /\ args' = [args EXCEPT ![p] = [op |-> "validateCardNumber", cardNumber |-> cardNumber]]
    /\ Settle(p, validateCardNumber(cardNumber), localStorage)
    /\ UNCHANGED <<localStorage, now, local, written, storageFull, serverVars, trackerVars, overtaken>>

---------------------------------------------------------------------------
\* An addRecord(recordData) call: one step.  The record is pushed and the
\* records are saved.
AddRecord(p, recordData) ==
    /\ pc[p] = "idle"
    /\ Len(records) < MaxRecords
    /\ LET id == RecordId(Len(records) + 1) IN
          /\ args' = [args EXCEPT ![p] = [op |-> "addRecord", recordData |-> recordData]]
          /\ records' = Append(records, addRecord(recordData, id, now))
          /\ uploadedRecords' = records'
          /\ Settle(p, id, localStorage)
    /\ UNCHANGED <<localStorage, now, local, written, storageFull, serverVars, overtaken>>

\* A processImmediatePurchase(recordId, quantity) call: one step.
ProcessImmediatePurchase(p, recordId, quantity) ==
    /\ pc[p] = "idle"
    /\ LET outcome == processImmediatePurchase(records, recordId, quantity) IN
          /\ args' = [args EXCEPT ![p] =
                 [op |-> "processImmediatePurchase", recordId |-> recordId, quantity |-> quantity]]
          /\ records' = outcome.records
          /\ uploadedRecords' = IF outcome.saved THEN outcome.records ELSE uploadedRecords
          /\ Settle(p, outcome.result, localStorage)
    /\ UNCHANGED <<localStorage, now, local, written, storageFull, serverVars, overtaken>>

---------------------------------------------------------------------------
\* exportUserData: retrieveUserData first.
ExportUserData(p, password) ==
    /\ pc[p] = "idle"
    /\ args' = [args EXCEPT ![p] = [op |-> "export", password |-> password]]
    /\ BeginRetrieve(p, "export")
    /\ UNCHANGED <<localStorage, now, written, storageFull, serverVars, trackerVars, overtaken>>

\* The retrieval succeeded: the record is wrapped into the export object.
ExportReturn(p) ==
    /\ pc[p] = "retrieve_session"
    /\ args[p].op = "export"
    /\ Settle(p, Success([data |->
                 [userData |-> retrievedData(local[p].decrypted.value, local[p].parsedData),
                  exportDate |-> ISOString(now),
                  version |-> Str(<<"1", ".", "0">>),
                  format |-> Str(<<"JSON">>)]]),
              localStorage)
    /\ UNCHANGED <<localStorage, now, args, local, written, storageFull, serverVars, trackerVars, overtaken>>

---------------------------------------------------------------------------
(***************************************************************************)
(* The environment: anything with access to the browser's storage can      *)
(* rewrite the stored envelope.  One field of an untouched envelope is     *)
(* changed; with `rehash` the dataHash is recomputed over the result, as   *)
(* the hash has no key.                                                    *)
(***************************************************************************)
CoveredFields == {"encryptedData", "nonSensitiveData", "hashedPassword",
                  "securityMetadata", "storedAt", "version"}

Changed(envelope, field, how) ==
    CASE field = "encryptedData" /\ how = "flip" ->
            [envelope EXCEPT !.encryptedData.base64.encrypted.intact = FALSE]
      [] field = "encryptedData" /\ how = "mangle" ->
            [envelope EXCEPT !.encryptedData = Garbage]
      [] field = "nonSensitiveData" ->
            [envelope EXCEPT !.nonSensitiveData.emailVerified = Bool(TRUE)]
      [] field = "hashedPassword" ->
            [envelope EXCEPT !.hashedPassword = sha256(Garbage)]
      [] field = "securityMetadata" ->
            [envelope EXCEPT !.securityMetadata.iterations = Num(1)]
      [] field = "storedAt" ->
            [envelope EXCEPT !.storedAt = Num(envelope.storedAt.n + 1)]
      [] field = "version" ->
            [envelope EXCEPT !.version = Str(<<"2", ".", "0">>)]
      [] field = "dataHash" ->
            [envelope EXCEPT !.dataHash = sha256(Garbage)]

Tamper(field, how, rehash) ==
    /\ localStorage[userDataKey] # null
    /\ IsJSON(localStorage[userDataKey])
    /\ written.by # NoArgs
    /\ written.tampered = {}
    /\ LET changed == Changed(JSONparse(localStorage[userDataKey]), field, how)
           envelope == IF rehash
                       THEN [changed EXCEPT !.dataHash = generateDataHash(dataToVerifyOf(changed))]
                       ELSE changed
       IN localStorage' = [localStorage EXCEPT ![userDataKey] = [json |-> envelope]]
    /\ written' = [written EXCEPT !.tampered = IF rehash THEN {field, "dataHash"} ELSE {field}]
    /\ UNCHANGED <<now, pc, args, local, ret, storageFull, serverVars, trackerVars, overtaken>>

\* The stored value is replaced by text that is not JSON.
Corrupt ==
    /\ localStorage[userDataKey] # null
    /\ IsJSON(localStorage[userDataKey])
    /\ written.tampered = {}
    /\ localStorage' = [localStorage EXCEPT ![userDataKey] = Garbage]
    /\ written' = [written EXCEPT !.tampered = CoveredFields \cup {"dataHash"}]
    /\ UNCHANGED <<now, pc, args, local, ret, storageFull, serverVars, trackerVars, overtaken>>

\* The store starts or stops taking writes: the quota is reached or freed.
StorageFills ==
    /\ \A p \in Procs : pc[p] \in {"idle", "done"}
    /\ storageFull' = ~storageFull
    /\ UNCHANGED <<localStorage, now, pc, args, local, ret, written, serverVars, trackerVars, overtaken>>

\* The changes of a stored envelope the model explores.
Tamperings ==
    {<<f, "set", FALSE>> : f \in (CoveredFields \cup {"dataHash"}) \ {"encryptedData"}}
    \cup {<<"encryptedData", "flip", FALSE>>, <<"encryptedData", "mangle", FALSE>>,
          <<"encryptedData", "flip", TRUE>>, <<"encryptedData", "mangle", TRUE>>,
          <<"nonSensitiveData", "set", TRUE>>}

---------------------------------------------------------------------------
\* The steps of the calls of handler p other than the calls themselves.
Continue(p) ==
    \/ HandlerDone(p)
    \/ InitializeSession(p)
    \/ InitializeReturn(p)
    \/ StorePrepared(p)
    \/ StoreWrite(p)
    \/ StoreReturn(p)
    \/ RetrieveVerified(p)
    \/ RetrieveDecrypted(p)
    \/ RetrieveReturn(p)
    \/ UpdateMerge(p)

\* The calls handler p can make, with records from UD and partial records from PT.
Call(p, UD, PT) ==
    \/ Initialize(p)
    \/ \E userData \in UD, password \in Passwords : StoreUserData(p, userData, password)
    \/ \E password \in Passwords : RetrieveUserData(p, password)
    \/ \E updatedData \in PT, password \in Passwords : UpdateUserData(p, updatedData, password)
    \/ DeleteUserData(p)

\* One handler, whose calls run to completion one after the other, the clock,
\* and an environment that rewrites the stored envelope.
Next ==
    \/ Tick
    \/ Continue("h1")
    \/ Call("h1", UserDatas, Partials)
    \/ \E t \in Tamperings : Tamper(t[1], t[2], t[3])
    \/ Corrupt

Spec == Init /\ [][Next]_vars

\* One handler, called with every record of FormRecords.
NextForm ==
    \/ Tick
    \/ Continue("h1")
    \/ Call("h1", FormRecords, Partials)

SpecForm == Init /\ [][NextForm]_vars

\* Two handlers whose calls interleave at their awaits, within one hour of the clock.
NextAsync ==
    \/ \E p \in Procs : Continue(p)
    \/ \E p \in Procs : Call(p, {RecordAnn, RecordBob}, {PartialKim})

SpecAsync == Init /\ [][NextAsync]_vars

\* One handler on a store that may stop taking writes and whose envelope may
\* be replaced by text that is not JSON.
NextFault ==
    \/ Continue("h1")
    \/ Call("h1", {RecordAnn}, {PartialKim})
    \/ \E password \in Passwords : ExportUserData("h1", password)
    \/ ExportReturn("h1")
    \/ StorageFills
    \/ Corrupt

SpecFault == Init /\ [][NextFault]_vars

\* The idle periods around the storage age limit: 29 days, 30 days, 30 days
\* and an hour, 31 days.
AgeIdles == {maxStorageAge - 24, maxStorageAge, maxStorageAge + 1, maxStorageAge + 24}

\* One handler on a page that is left unused for about a month.
NextExpiry ==
    \/ Sleep(AgeIdles, MaxAgeClock)
    \/ Continue("h1")
    \/ Call("h1", {RecordAnn}, {PartialKim})
    \/ Corrupt

SpecExpiry == Init /\ [][NextExpiry]_vars

\* The idle periods around the session timeout: 23, 24 and 25 hours.
SessionIdles == {sessionTimeout - 1, sessionTimeout, sessionTimeout + 1}

\* One handler on a page that is left unused for about a day.
NextSession ==
    \/ Sleep(SessionIdles, MaxIdleClock)
    \/ Continue("h1")
    \/ Call("h1", {RecordAnn}, {PartialKim})
    \/ IsSessionValid("h1")

SpecSession == Init /\ [][NextSession]_vars

\* One caller of the rate limiter, and the clock.
NextRate ==
    \/ Sleep({1}, MaxRateClock)
    \/ HandlerDone("h1")
    \/ \E identifier \in RateIdentifiers, action \in RateActions :
          CheckRateLimit("h1", identifier, action)

SpecRate == Init /\ [][NextRate]_vars

\* One caller of the registration form validation.
NextValidation ==
    \/ HandlerDone("h1")
    \/ \E data \in RegistrationDatas : ValidateRegistrationData("h1", data)

SpecValidation == Init /\ [][NextValidation]_vars

\* One caller of sanitizeInput.
NextSanitize ==
    \/ HandlerDone("h1")
    \/ \E input \in SanitizeInputs : SanitizeInput("h1", input)

SpecSanitize == Init /\ [][NextSanitize]_vars

\* One caller of validateIBANChecksum.
NextIban ==
    \/ HandlerDone("h1")
    \/ \E iban \in Ibans : ValidateIBANChecksum("h1", iban)

SpecIban == Init /\ [][NextIban]_vars

\* One caller of validateCardNumber.
NextCard ==
    \/ HandlerDone("h1")
    \/ \E cardNumber \in CardNumbers : ValidateCardNumber("h1", cardNumber)

SpecCard == Init /\ [][NextCard]_vars

\* One handler that also exports, the clock, and an environment that rewrites
\* the stored envelope.
NextRetrieval ==
    \/ Tick
    \/ Continue("h1")
    \/ Call("h1", {RecordAnn}, {PartialKim})
    \/ \E password \in Passwords : ExportUserData("h1", password)
    \/ ExportReturn("h1")
    \/ \E t \in Tamperings : Tamper(t[1], t[2], t[3])
    \/ Corrupt

SpecRetrieval == Init /\ [][NextRetrieval]_vars

\* One caller of the rate limiter with the pairs of CollidingPairs, and the clock.
NextRateKeys ==
    \/ Sleep({1}, MaxRateClock)
    \/ HandlerDone("h1")
    \/ \E pair \in CollidingPairs : CheckRateLimit("h1", pair[2], pair[1])

SpecRateKeys == Init /\ [][NextRateKeys]_vars

\* One caller of the purchase tracker: records are uploaded and bought.
NextPurchase ==
    \/ HandlerDone("h1")
    \/ \E recordData \in RecordDatas : AddRecord("h1", recordData)
    \/ \E recordId \in RecordIds, quantity \in 1..(MaxStock + 1) :
          ProcessImmediatePurchase("h1", recordId, quantity)

SpecPurchase == Init /\ [][NextPurchase]_vars

---------------------------------------------------------------------------
(***************************************************************************)
(* Properties.                                                             *)
(***************************************************************************)
\* A retrieveUserData call of handler p has settled after reading an envelope.
RetrievedBy(p) ==
    /\ pc[p] = "done"
    /\ args[p].op = "retrieve"
    /\ "readOf" \in DOMAIN local[p]

\* The envelope that handler p read was written by a store and not changed since.
ReadAsWritten(p) ==
    /\ local[p].readOf.by # NoArgs
    /\ local[p].readOf.tampered = {}

\* The hash recomputed over an envelope without its dataHash differs from its dataHash.
HashMismatch(parsedData) ==
    sha256(stringifyEnvelope(dataToVerifyOf(parsedData))) # Get(parsedData, "dataHash")

\* C1: when the persisted envelope was written by storeUserData(r, p),
\* retrieveUserData(p) succeeds and returns r's eight sensitive values merged
\* with the envelope's non-sensitive fields, and nothing of an earlier record.
C1_RoundTrip ==
    \A p \in Procs :
        (RetrievedBy(p) /\ ReadAsWritten(p) /\ args[p].password = local[p].readOf.by.password)
        => /\ ret[p].result.success
           /\ \A f \in SensitiveFields :
                 Get(ret[p].result.data, f) = Get(local[p].readOf.by.userData, f)
           /\ \A k \in DOMAIN local[p].parsedData.nonSensitiveData :
                 Get(ret[p].result.data, k) = local[p].parsedData.nonSensitiveData[k]
           /\ DOMAIN ret[p].result.data \subseteq
                 SensitiveFields \cup DOMAIN local[p].parsedData.nonSensitiveData

\* A retrieval returned a record that an update had written over an earlier one.
C1_Witness ==
    \E p \in Procs :
        /\ RetrievedBy(p) /\ ReadAsWritten(p)
        /\ ret[p].result.success
        /\ ret[p].result.data.firstName = RecordBob.firstName
        /\ ret[p].result.data.lastName = PartialKim.lastName

\* C2: in retrieveUserData the integrity check precedes decryption: on a hash
\* mismatch the call fails and decryptUserData is not invoked for that call.
C2_IntegrityBeforeDecrypt ==
    \A p \in Procs :
        ("parsedData" \in DOMAIN local[p] /\ HashMismatch(local[p].parsedData))
        => /\ ~local[p].decryptCalled
           /\ pc[p] \in {"retrieve_verify", "done"}
           /\ pc[p] = "done" => ~ret[p].result.success

\* A retrieval of an envelope whose hash does not match has failed without decrypting.
C2_Witness ==
    \E p \in Procs :
        /\ RetrievedBy(p)
        /\ HashMismatch(local[p].parsedData)
        /\ ~ret[p].result.success
        /\ ~local[p].decryptCalled

\* C3: when one field covered by the hash was changed after the store,
\* retrieval with the original password fails.
C3_TamperDetected ==
    \A p \in Procs :
        (/\ RetrievedBy(p)
         /\ local[p].readOf.by # NoArgs
         /\ Cardinality(local[p].readOf.tampered) = 1
         /\ local[p].readOf.tampered \subseteq CoveredFields
         /\ args[p].password = local[p].readOf.by.password)
        => ~ret[p].result.success

\* A retrieval with the right password failed after nonSensitiveData was changed.
C3_Witness ==
    \E p \in Procs :
        /\ RetrievedBy(p)
        /\ local[p].readOf.by # NoArgs
        /\ local[p].readOf.tampered = {"nonSensitiveData"}
        /\ args[p].password = local[p].readOf.by.password
        /\ ~ret[p].result.success

\* C4: retrieveUserData with a password other than the one the envelope was
\* stored with returns the generic failure and no record data.
C4_WrongPassword ==
    \A p \in Procs :
        (RetrievedBy(p) /\ ReadAsWritten(p) /\ args[p].password # local[p].readOf.by.password)
        => ret[p].result = Failure("Failed to retrieve user data")

\* A retrieval with the wrong password reached decryption and failed.
C4_Witness ==
    \E p \in Procs :
        /\ RetrievedBy(p) /\ ReadAsWritten(p)
        /\ args[p].password # local[p].readOf.by.password
        /\ local[p].decryptCalled
        /\ ~ret[p].result.success

\* C5: decryptUserData fails with one and the same value whether the password
\* is wrong, the ciphertext was changed or the blob cannot be decoded, and so
\* does the retrieval around it.
C5_SameFailure ==
    \A p \in Procs :
        ("decrypted" \in DOMAIN local[p] /\ ~local[p].decrypted.ok)
        => /\ local[p].decrypted = Thrown("Failed to decrypt user data")
           /\ (pc[p] = "done" /\ args[p].op = "retrieve")
                 => ret[p].result = Failure("Failed to retrieve user data")

\* decryptUserData failed on a blob that is not base64, given the right password.
C5_Witness ==
    \E p \in Procs :
        /\ RetrievedBy(p)
        /\ "decrypted" \in DOMAIN local[p]
        /\ ~local[p].decrypted.ok
        /\ ~IsBase64(local[p].parsedData.encryptedData)
        /\ args[p].password = local[p].readOf.by.password

\* The values of a store call that must not be readable from the store: the
\* eight sensitive fields of its record and the password.
Secrets(call) ==
    ({Get(call.userData, f) : f \in SensitiveFields \cup {"password"}}
        \cup {call.password}) \ {undefined}

\* The values an envelope shows without a key: every field and every nested
\* field, the encrypted blob and the digests as the opaque terms they are.
ClearValues(envelope) ==
    {envelope[k] : k \in (DOMAIN envelope) \ {"nonSensitiveData", "securityMetadata"}}
    \cup {envelope.nonSensitiveData[k] : k \in DOMAIN envelope.nonSensitiveData}
    \cup {envelope.securityMetadata[k] : k \in DOMAIN envelope.securityMetadata}

\* C6: no persisted entry holds a sensitive field value or the password in
\* the clear; the envelope carries them only inside encryptedData.
C6_NothingInTheClear ==
    /\ (written.by # NoArgs /\ IsJSON(localStorage[userDataKey]))
       => Secrets(written.by) \cap ClearValues(JSONparse(localStorage[userDataKey])) = {}
    /\ getSession(localStorage) # null
       => /\ DOMAIN getSession(localStorage) = {"sessionId", "createdAt", "lastActivity", "isActive"}
          /\ getSession(localStorage).sessionId \in SessionTokens

\* An envelope is stored that an update wrote from a retrieved record, which
\* carries the non-sensitive fields as extra fields, and a partial with a password.
C6_Witness ==
    /\ written.by # NoArgs
    /\ written.tampered = {}
    /\ localStorage[userDataKey] # null
    /\ "emailVerified" \in DOMAIN written.by.userData
    /\ written.by.userData.firstName = RecordBob.firstName
    /\ written.by.userData.lastName = PartialKim.lastName
    /\ Get(written.by.userData, "password") = PasswordA

EnvelopeKeys == CoveredFields \cup {"dataHash"}

\* C7: under every interleaving of the calls at their awaits, the envelope
\* key is absent or holds a complete envelope whose dataHash is the hash of
\* its other fields.
C7_EnvelopeWhole ==
    LET storedData == localStorage[userDataKey] IN
        \/ storedData = null
        \/ /\ IsJSON(storedData)
           /\ DOMAIN JSONparse(storedData) = EnvelopeKeys
           /\ ~HashMismatch(JSONparse(storedData))

\* An envelope is stored while one call is about to write another envelope
\* and a second call is in the middle of retrieving.
C7_Witness ==
    /\ localStorage[userDataKey] # null
    /\ \E p, q \in Procs :
          /\ pc[p] = "store_hash"
          /\ pc[q] \in {"retrieve_verify", "retrieve_decrypt"}
          /\ local[p].userData # local[q].readOf.by.userData

\* C8: right after a storeUserData or retrieveUserData call that returns
\* success, a session exists with isActive = true and lastActivity equal to
\* the time of the call.
C8_SessionAfterSuccess ==
    \A p \in Procs :
        (pc[p] = "done" /\ args[p].op \in {"store", "retrieve"} /\ ret[p].result.success)
        => /\ ret[p].session # null
           /\ ret[p].session.isActive
           /\ ret[p].session.lastActivity = ret[p].time

\* C9: for every record that passes structural validation, storeUserData
\* persists the envelope, marks the session active and returns success with
\* the session id.
C9_StoreSucceeds ==
    \A p \in Procs :
        (pc[p] = "done" /\ args[p].op = "store" /\ validateUserData(args[p].userData))
        => /\ ret[p].result.success
           /\ ret[p].session # null
           /\ ret[p].session.isActive
           /\ ret[p].result.sessionId = ret[p].session.sessionId

\* A field that is present as a non-empty string.
NonEmptyString(userData, f) ==
    /\ f \in DOMAIN userData
    /\ userData[f].t = "string"
    /\ userData[f].v # <<>>

FormatsPass(userData) ==
    /\ validateEmail(userData.email.v)
    /\ validateIBAN(userData.iban.v)
    /\ validateBIC(userData.bic.v)

\* storeUserData rejected the record of its call.
Rejected(p) == ret[p].result = Failure("Invalid user data provided")

\* C10 as stated: storeUserData rejects a record exactly when one of the
\* eight sensitive fields is not a non-empty string or a format check fails.
C10_RejectsOnEightFields ==
    \A p \in Procs :
        (pc[p] = "done" /\ args[p].op = "store")
        => (Rejected(p) <=>
               ~(/\ \A f \in SensitiveFields : NonEmptyString(args[p].userData, f)
                 /\ FormatsPass(args[p].userData)))

\* C10 as amended: storeUserData rejects a record exactly when firstName,
\* lastName, email, shippingAddress, iban, bic, bankAccountOwner or password
\* is not a non-empty string, or a format check fails; phone is not required.
C10_RejectsOnRequiredFields ==
    \A p \in Procs :
        (pc[p] = "done" /\ args[p].op = "store")
        => (Rejected(p) <=>
               ~(/\ \A f \in (SensitiveFields \ {"phone"}) \cup {"password"} :
                       NonEmptyString(args[p].userData, f)
                 /\ FormatsPass(args[p].userData)))

\* A record that has no phone was stored and storeUserData returned success.
C10_Witness ==
    \E p \in Procs :
        /\ pc[p] = "done"
        /\ args[p].op = "store"
        /\ "phone" \notin DOMAIN args[p].userData
        /\ ret[p].result.success

\* A record that passes structural validation, stated from the field rules.
StructurallyValid(userData) ==
    /\ \A f \in (SensitiveFields \ {"phone"}) \cup {"password"} : NonEmptyString(userData, f)
    /\ FormatsPass(userData)

\* C11: a storeUserData call whose record fails structural validation
\* returns a failure result in the step of the call and leaves the persisted
\* envelope and the persisted session as they were.
C11_InvalidStoreChangesNothing ==
    [][\A p \in Procs :
          (pc[p] = "idle" /\ args'[p].op = "store" /\ ~StructurallyValid(args'[p].userData))
          => /\ pc'[p] = "done"
             /\ ~ret'[p].result.success
             /\ localStorage' = localStorage]_vars

\* A record was rejected while an envelope and an active session were stored.
C11_Witness ==
    \E p \in Procs :
        /\ pc[p] = "done"
        /\ args[p].op = "store"
        /\ ~StructurallyValid(args[p].userData)
        /\ Rejected(p)
        /\ localStorage[userDataKey] # null
        /\ getSession(localStorage) # null
        /\ getSession(localStorage).isActive

\* C12: after a successful storeUserData(r, p), updateUserData(partial, p)
\* with valid values for a subset of the record's fields succeeds: an update
\* whose retrieval read the stored envelope and decrypted it returns success.
C12_UpdateSucceeds ==
    \A p \in Procs :
        (/\ pc[p] = "done"
         /\ args[p].op = "update"
         /\ "decrypted" \in DOMAIN local[p]
         /\ local[p].decrypted.ok
         /\ ReadAsWritten(p)
         /\ args[p].password = local[p].readOf.by.password
         /\ args[p].userData \in Partials)
        => ret[p].result.success

\* C13: deleteUserData reports success from every state and leaves both the
\* envelope and the session absent; called when both are absent already, it
\* changes nothing in the store.
C13_DeleteIdempotent ==
    [][\A p \in Procs :
          (pc[p] = "idle" /\ args'[p].op = "delete")
          => /\ pc'[p] = "done"
             /\ ret'[p].result.success
             /\ \A key \in StorageKeys : localStorage'[key] = null
             /\ (\A key \in StorageKeys : localStorage[key] = null)
                   => localStorage' = localStorage]_vars

\* A deleteUserData call returned success on a store that held neither an
\* envelope nor a session when it was called.
C13_Witness ==
    \E p \in Procs :
        /\ pc[p] = "done"
        /\ args[p].op = "delete"
        /\ \A key \in StorageKeys : local[p].before[key] = "absent"
        /\ ret[p].result.success
        /\ \A key \in StorageKeys : localStorage[key] = null

\* C14: retrieveUserData reports its failure causes as results the caller
\* can tell apart: the result for an envelope whose dataHash does not match
\* is neither the "no data" result nor the result of a failed decryption.
C14_DistinctFailures ==
    \A p \in Procs :
        (RetrievedBy(p) /\ HashMismatch(local[p].parsedData))
        => /\ ~ret[p].result.success
           /\ ret[p].result # Failure("No user data found")
           /\ ret[p].result # Failure("Failed to retrieve user data")

\* A stored item that parses and carries a storedAt time.
HasStoredAt(store, key) ==
    /\ store[key] # null
    /\ IsJSON(store[key])
    /\ "storedAt" \in DOMAIN JSONparse(store[key])

AgeOf(store, key) == now - JSONparse(store[key]).storedAt.n

\* C15: initialize() removes every item under the prefix whose storedAt is
\* more than 30 days (720 hours) before now, and retains, unchanged, every
\* item that parses and whose storedAt is at most 30 days old.
C15_ExpirySweep ==
    [][\A p \in Procs : \A key \in StorageKeys :
          /\ (pc[p] = "idle" /\ args'[p].op = "initialize" /\ HasStoredAt(localStorage, key))
              => /\ AgeOf(localStorage, key) > 30 * 24 => localStorage'[key] = null
                 /\ AgeOf(localStorage, key) <= 30 * 24 => localStorage'[key] = localStorage[key]
          /\ (pc[p] \in {"init_session", "init_return"} /\ pc'[p] # pc[p]
                 /\ HasStoredAt(localStorage, key))
              => localStorage'[key] = localStorage[key]]_vars

\* initialize() has run 30 days and one hour after an envelope was stored
\* in the first hour, and the envelope it found is gone.
C15_Witness ==
    \E p \in Procs :
        /\ pc[p] = "done"
        /\ args[p].op = "initialize"
        /\ local[p].before[userDataKey] = "JSON"
        /\ localStorage[userDataKey] = null
        /\ ret[p].time = 1 + 30 * 24 + 1

\* C16: initialize() creates a new session with isActive = false exactly
\* when no session is persisted; a session that exists keeps its sessionId,
\* createdAt, lastActivity and isActive through every step of the call.
C16_InitializeSession ==
    [][\A p \in Procs :
          (args'[p].op = "initialize" /\ pc'[p] # pc[p])
          => IF getSession(localStorage) # null
             THEN getSession(localStorage') = getSession(localStorage)
             ELSE IF pc[p] = "init_session"
             THEN /\ getSession(localStorage') # null
                  /\ getSession(localStorage').sessionId \in SessionTokens
                  /\ getSession(localStorage').createdAt = now
                  /\ getSession(localStorage').lastActivity = now
                  /\ ~getSession(localStorage').isActive
             ELSE getSession(localStorage') = null]_vars

\* initialize() has returned true after it found no session, and an
\* inactive session created at the time of the call is stored.
C16_Witness ==
    \E p \in Procs :
        /\ pc[p] = "done"
        /\ args[p].op = "initialize"
        /\ local[p].before[sessionKey] = "absent"
        /\ ret[p].result = TRUE
        /\ ret[p].session # null
        /\ ~ret[p].session.isActive
        /\ ret[p].session.createdAt = ret[p].time

\* C17: initialize, storeUserData, retrieveUserData, updateUserData,
\* deleteUserData and exportUserData never throw: on a store that takes no
\* writes, without a session, or with text that is not JSON under the
\* envelope key, initialize returns a boolean and the others a result with
\* success = true or success = false and an error message.
C17_NeverThrows ==
    \A p \in Procs :
        pc[p] = "done"
        => IF args[p].op = "initialize"
           THEN ret[p].result \in BOOLEAN
           ELSE /\ args[p].op \in {"store", "retrieve", "update", "delete", "export"}
                /\ "success" \in DOMAIN ret[p].result
                /\ ret[p].result.success \in BOOLEAN
                /\ ~ret[p].result.success => "error" \in DOMAIN ret[p].result

\* exportUserData has returned a failure on a store that takes no writes,
\* holds no session and has text that is not JSON under the envelope key.
C17_Witness ==
    \E p \in Procs :
        /\ pc[p] = "done"
        /\ args[p].op = "export"
        /\ storageFull
        /\ getSession(localStorage) = null
        /\ localStorage[userDataKey] = Garbage
        /\ ret[p].result = Failure("Cannot retrieve user data")

\* C18: isSessionValid() returns true if and only if a session is
\* persisted, its isActive is true and now - lastActivity is less than 24
\* hours: 23 hours idle is valid, 24 and 25 hours idle are not.
C18_SessionValidity ==
    \A p \in Procs :
        (pc[p] = "done" /\ args[p].op = "isSessionValid")
        => (ret[p].result <=> /\ ret[p].session # null
                              /\ ret[p].session.isActive
                              /\ ret[p].time - ret[p].session.lastActivity < 24)

\* isSessionValid() returned true for an active session that was idle for 23 hours.
C18_Witness ==
    \E p \in Procs :
        /\ pc[p] = "done"
        /\ args[p].op = "isSessionValid"
        /\ ret[p].result = TRUE
        /\ ret[p].session.isActive
        /\ ret[p].time - ret[p].session.lastActivity = 23

\* The number of the times in `times` that lie in the window (t - W, t].
InWindow(times, t, W) ==
    Cardinality({i \in 1..Len(times) : t - W < times[i] /\ times[i] <= t})

\* C19: for a fixed key, limit L and window W, a checkRateLimit call at time
\* t is allowed if and only if fewer than L earlier allowed calls have times
\* in (t - W, t]; no window (s - W, s] holds more than L allowed calls; and a
\* call made once W has passed since the oldest stored attempt is allowed.
C19_SlidingWindow ==
    /\ \A p \in Procs :
          (pc[p] = "done" /\ args[p].op = "checkRateLimit")
          => /\ ret[p].result.allowed
                   <=> InWindow(local[p].earlier, ret[p].time, args[p].windowMs) < args[p].limit
             /\ (/\ local[p].stored # <<>>
                 /\ ret[p].time >= local[p].stored[1] + args[p].windowMs)
                   => ret[p].result.allowed
    /\ \A action \in RateActions, identifier \in RateIdentifiers :
          \A s \in 1..(now + windowOf(action)) :
              InWindow(allowed[rateLimitKey(action, identifier)], s, windowOf(action))
                  <= limitOf(action)

\* With two attempts stored and two calls allowed before, a login call made
\* exactly one window after the older stored attempt was allowed.
C19_Witness ==
    \E p \in Procs :
        /\ pc[p] = "done"
        /\ args[p].op = "checkRateLimit"
        /\ args[p].limit = 2
        /\ Len(local[p].stored) = 2
        /\ Len(local[p].earlier) = 2
        /\ ret[p].time = local[p].stored[1] + args[p].windowMs
        /\ ret[p].result.allowed

\* C20: validateRegistrationData never throws: whatever the type of each
\* field value, it returns a result {isValid, errors, sanitizedData}, and the
\* result is invalid exactly when errors has entries.
C20_ValidationNeverThrows ==
    \A p \in Procs :
        (pc[p] = "done" /\ args[p].op = "validateRegistrationData")
        => /\ DOMAIN ret[p].result = {"isValid", "errors", "sanitizedData"}
           /\ ret[p].result.isValid <=> ret[p].result.errors = <<>>

\* A rule-table field of a form fails one of its checks: it is not text, it
\* is required and blank, or what is left of it after sanitizing breaks a
\* length bound, the pattern, the email domain check, the IBAN checksum or
\* the password score.
FieldFails(data, fieldName) ==
    LET value == Get(data, fieldName)
        rules == validationRules[fieldName]
    IN IF Truthy(value) /\ typeof(value) # "string"
       THEN TRUE
       ELSE IF ~Truthy(value) \/ trim(value.v) = <<>>
       THEN rules.required
       ELSE LET s == IF rules.sanitize THEN sanitizeInput(value).v ELSE value.v
            IN \/ rules.minLength # 0 /\ Len(s) < rules.minLength
               \/ rules.maxLength # 0 /\ Len(s) > rules.maxLength
               \/ ~patternTest(fieldName, s)
               \/ fieldName = "email" /\ ~validateEmailDomain(s)
               \/ fieldName = "iban" /\ ~validateIBANChecksum(s)
               \/ fieldName = "password" /\ passwordScore(s) < 3

FailingFields(data) ==
    {RuleFields[i] : i \in {j \in 1..Len(RuleFields) : FieldFails(data, RuleFields[j])}}

MissingConsents(data) ==
    {c \in {"termsAccepted", "privacyAccepted"} : ~Truthy(Get(data, c))}

\* C21: a validateRegistrationData call that returns a result has checked
\* every rule-table field: isValid is true if and only if no field fails a
\* check and both consents are truthy, and errors has a message for each
\* failing field and each missing consent.
C21_AllViolationsReported ==
    \A p \in Procs :
        (/\ pc[p] = "done"
         /\ args[p].op = "validateRegistrationData"
         /\ "isValid" \in DOMAIN ret[p].result)
        => LET result == ret[p].result
               reported == {result.errors[i].field : i \in 1..Len(result.errors)}
           IN /\ result.isValid
                    <=> FailingFields(args[p].data) = {} /\ MissingConsents(args[p].data) = {}
              /\ FailingFields(args[p].data) \cup MissingConsents(args[p].data) \subseteq reported

\* A form in which firstName and password both fail was found invalid,
\* with a message for each of the two.
C21_Witness ==
    \E p \in Procs :
        /\ pc[p] = "done"
        /\ args[p].op = "validateRegistrationData"
        /\ "isValid" \in DOMAIN ret[p].result
        /\ FailingFields(args[p].data) = {"firstName", "password"}
        /\ ~ret[p].result.isValid
        /\ Len(ret[p].result.errors) >= 2

\* The characters sanitizeInput is to remove.
DeniedChars == {"<", ">", "'", "\"", ";", "(", ")", "{", "}", "[", "]"}

\* word occurs in s, in whatever case.
Occurs(word, s) ==
    \E i \in 1..Len(s) :
        /\ i + Len(word) - 1 <= Len(s)
        /\ toLowerCase(SubSeq(s, i, i + Len(word) - 1)) = word

\* C22: the text sanitizeInput returns for a string holds none of the denied
\* characters and no occurrence, in whatever case, of a denied word, and
\* sanitizeInput applied to it returns it unchanged.
C22_SanitizedIsClean ==
    \A p \in Procs :
        (/\ pc[p] = "done"
         /\ args[p].op = "sanitizeInput"
         /\ typeof(args[p].input) = "string")
        => LET out == ret[p].result IN
           /\ \A i \in 1..Len(out.v) : out.v[i] \notin DeniedChars
           /\ \A k \in 1..Len(SanitizedWords) : ~Occurs(SanitizedWords[k], out.v)
           /\ sanitizeInput(out) = out

\* The decimal digits of s, every letter written as its two-digit value
\* A = 10 .. Z = 35.
RECURSIVE DecimalDigits(_)
DecimalDigits(s) ==
    IF s = <<>> THEN <<>>
    ELSE LET k == IndexOf(s[1], UpperSeq) + 9
         IN (IF s[1] \in Digit09 THEN <<IndexOf(s[1], DigitSeq) - 1>> ELSE <<k \div 10, k % 10>>)
            \o DecimalDigits(Tail(s))

\* 10^k modulo 97
RECURSIVE TenToThe(_)
TenToThe(k) == IF k = 0 THEN 1 ELSE (10 * TenToThe(k - 1)) % 97

\* The sum of digits[i] * 10^(n - i) over i in 1..n, modulo 97.
RECURSIVE WeightedSum(_, _)
WeightedSum(digits, i) ==
    IF i > Len(digits) THEN 0
    ELSE (digits[i] * TenToThe(Len(digits) - i) + WeightedSum(digits, i + 1)) % 97

\* The number that s with its first four characters moved to the end
\* denotes, modulo 97.
RearrangedMod97(s) ==
    WeightedSum(DecimalDigits(SubSeq(s, 5, Len(s)) \o SubSeq(s, 1, IF Len(s) < 4 THEN Len(s) ELSE 4)), 1)

\* C23: for a text of decimal digits and capital letters validateIBANChecksum
\* returns true exactly when the number denoted by the text with its first
\* four characters moved to the end, letters written as A = 10 .. Z = 35, is
\* congruent to 1 modulo 97; DE89370400440532013000 passes, and a passing
\* IBAN with one decimal digit replaced by a different digit fails.
C23_ChecksumIsMod97 ==
    \A p \in Procs :
        (pc[p] = "done" /\ args[p].op = "validateIBANChecksum")
        => LET s == args[p].iban IN
           /\ (\A i \in 1..Len(s) : s[i] \in Digit09 \cup UpperAZ)
              => (ret[p].result <=> (RearrangedMod97(s) = 1))
           /\ s = IbanDE => ret[p].result
           /\ \A passing \in {IbanDE, IbanGB} :
                 s \in SingleDigitChanges(passing) => ~ret[p].result

\* validateIBANChecksum has returned true for DE89370400440532013000.
C23_Witness ==
    \E p \in Procs :
        /\ pc[p] = "done"
        /\ args[p].op = "validateIBANChecksum"
        /\ args[p].iban = IbanDE
        /\ ret[p].result = TRUE

\* The Luhn sum of a text of digits: the k-th digit from the right counts
\* as it is for odd k and doubled, less 9 when the double is above 9, for
\* even k.
RECURSIVE LuhnTotal(_, _)
LuhnTotal(digits, k) ==
    IF k > Len(digits) THEN 0
    ELSE LET d == IndexOf(digits[Len(digits) + 1 - k], DigitSeq) - 1
         IN (IF k % 2 = 1 THEN d ELSE IF 2 * d > 9 THEN 2 * d - 9 ELSE 2 * d)
            + LuhnTotal(digits, k + 1)

\* C24: validateCardNumber returns true exactly when the input without its
\* blanks is 13 to 19 decimal digits with a Luhn sum divisible by 10;
\* 4532015112830366 passes, 4532015112830367 fails, and a passing number
\* with one digit replaced by a different digit fails.
C24_CardNumberIsLuhn ==
    \A p \in Procs :
        (pc[p] = "done" /\ args[p].op = "validateCardNumber")
        => LET s == args[p].cardNumber
               digits == SelectSeq(s, LAMBDA ch : ch # " ")
           IN /\ ret[p].result <=>
                    /\ Len(digits) >= 13
                    /\ Len(digits) <= 19
                    /\ \A i \in 1..Len(digits) : digits[i] \in Digit09
                    /\ LuhnTotal(digits, 1) % 10 = 0
              /\ s = CardVisa16 => ret[p].result
              /\ s = [CardVisa16 EXCEPT ![16] = "7"] => ~ret[p].result
              /\ \A passing \in {CardVisa16, CardVisa13} :
                    s \in SingleDigitChanges(passing) => ~ret[p].result

\* validateCardNumber has returned true for 4532015112830366.
C24_Witness ==
    \E p \in Procs :
        /\ pc[p] = "done"
        /\ args[p].op = "validateCardNumber"
        /\ args[p].cardNumber = CardVisa16
        /\ ret[p].result = TRUE

\* The non-sensitive fields the envelope keeps of a record.
CarriedFields == {"registrationDate", "emailVerified", "accountStatus"}

\* C25: after a successful updateUserData the stored envelope has, for
\* registrationDate, emailVerified and accountStatus, the value of the merged
\* record: the one the partial names, else the one stored before the update.
C25_UpdateCarriesNonSensitive ==
    \A p \in Procs :
        (/\ pc[p] = "done"
         /\ args[p].op = "update"
         /\ ret[p].result.success
         /\ written.tampered = {}
         /\ localStorage[userDataKey] # null
         /\ IsJSON(localStorage[userDataKey]))
        => \A f \in CarriedFields :
              JSONparse(localStorage[userDataKey]).nonSensitiveData[f] = Get(local[p].userData, f)

\* C26: a storeUserData call that returns success = false has written
\* nothing: a call that has written the envelope (it is past its setItem and
\* suspended at the await of updateSession) returns success = true.
C26_FailedStoreWritesNothing ==
    [][\A p \in Procs :
          (args[p].op = "store" /\ pc[p] = "store_session" /\ pc'[p] = "done")
          => ret'[p].result.success]_vars

\* Handler p takes a step of the retrieval of a retrieveUserData,
\* updateUserData or exportUserData call that does not complete the retrieval.
RetrievalStepShortOfSuccess(p) ==
    /\ pc'[p] # pc[p]
    /\ args'[p].op \in {"retrieve", "update", "export"}
    /\ pc[p] \in {"idle", "retrieve_verify", "retrieve_decrypt"}
    /\ pc'[p] \in {"retrieve_verify", "retrieve_decrypt", "done"}

\* C27: a retrieveUserData, updateUserData or exportUserData call whose
\* retrieval fails changes neither the stored envelope nor the stored
\* session: no step of a retrieval up to and including the one that returns
\* the failure writes to the store.
C27_FailedRetrievalWritesNothing ==
    [][\A p \in Procs : RetrievalStepShortOfSuccess(p) => localStorage' = localStorage]_vars

\* exportUserData has returned a failure for an envelope whose hash does not
\* match, an hour after the session was last touched, and the session is as
\* it was.
C27_Witness ==
    \E p \in Procs :
        /\ pc[p] = "done"
        /\ args[p].op = "export"
        /\ ret[p].result = Failure("Cannot retrieve user data")
        /\ "decryptCalled" \in DOMAIN local[p]
        /\ ~local[p].decryptCalled
        /\ getSession(localStorage) # null
        /\ getSession(localStorage).lastActivity < now
        /\ getSession(localStorage) = ret[p].session
        /\ ret[p].time = now

\* C28: when deleteUserData has run while a storeUserData or updateUserData
\* call of another handler was suspended at an await, and both calls have
\* completed, no envelope is stored.
C28_DeleteNotUndone ==
    \A p, q \in Procs :
        (/\ p # q
         /\ pc[p] = "done"
         /\ args[p].op = "delete"
         /\ pc[q] = "done"
         /\ args[q].op \in {"store", "update"}
         /\ q \in overtaken)
        => localStorage[userDataKey] = null

\* C29: the outcome of a checkRateLimit call for an (action, identifier) pair
\* depends on the earlier calls for that pair alone: the call is allowed if
\* and only if fewer than `limit` allowed calls of the pair have times in the
\* window, and `remaining` counts the allowed calls of the pair alone.
C29_PairsIndependent ==
    \A p \in Procs :
        (pc[p] = "done" /\ args[p].op = "checkRateLimit")
        => LET used == InWindow(local[p].own, ret[p].time, args[p].windowMs) IN
           /\ ret[p].result.allowed <=> used < args[p].limit
           /\ ret[p].result.remaining =
                 IF used < args[p].limit THEN args[p].limit - used - 1 ELSE 0

\* Handler p makes a processImmediatePurchase call in this step.
PurchaseStep(p) ==
    /\ pc[p] = "idle"
    /\ pc'[p] = "done"
    /\ args'[p].op = "processImmediatePurchase"

\* The immediate-sale records among recs, by index.
Immediate(recs) == {i \in 1..Len(recs) : recs[i].type = "immediate"}

\* C30: a processImmediatePurchase call for a quantity of at least 1
\* succeeds only if the record is an immediate-sale record with at least that
\* quantity in stock; a successful call lowers the record's quantity and
\* raises its sold by the requested quantity, so that their sum stays, sets
\* its status to out_of_stock when the quantity reaches 0, and leaves the
\* other records alone; a rejected call changes nothing; and no
\* immediate-sale record ever has a negative quantity.
C30_PurchaseKeepsStock ==
    [][/\ \A i \in Immediate(records') : records'[i].quantity >= 0
       /\ \A p \in Procs :
             PurchaseStep(p) =>
                LET i == FindRecord(records, args'[p].recordId)
                    quantity == args'[p].quantity
                IN IF ret'[p].result
                   THEN /\ i \in Immediate(records)
                        /\ records[i].quantity >= quantity
                        /\ Len(records') = Len(records)
                        /\ \A j \in (1..Len(records)) \ {i} : records'[j] = records[j]
                        /\ records'[i].quantity = records[i].quantity - quantity
                        /\ records'[i].sold = records[i].sold + quantity
                        /\ records'[i].quantity + records'[i].sold
                              = records[i].quantity + records[i].sold
                        /\ records'[i].quantity = 0 => records'[i].status = "out_of_stock"
                        /\ uploadedRecords' = records'
                   ELSE /\ records' = records
                        /\ uploadedRecords' = uploadedRecords]_vars

\* A purchase has taken the last units of a record of which some were sold
\* before: its quantity is 0, its status out_of_stock.
C30_Witness ==
    \E p \in Procs :
        /\ pc[p] = "done"
        /\ args[p].op = "processImmediatePurchase"
        /\ ret[p].result = TRUE
        /\ \E i \in Immediate(records) :
              /\ records[i].id = args[p].recordId
              /\ records[i].quantity = 0
              /\ records[i].sold > args[p].quantity
              /\ records[i].status = "out_of_stock"

=============================================================================
